---- MODULE Spec2Model ----
(***************************************************************************)
(* A model of the language-compiler toolchain: the lexer, the parser, the  *)
(* semantic analyzer, the AST-to-IR lowering, the stack virtual machine    *)
(* that executes the IR, and the driver (main.py) that wires them in file  *)
(* mode and interactive mode.                                              *)
(*                                                                         *)
(* Python values are modelled by records [t, n, s]: t is the Python type   *)
(* ("nil" for None, "bool", "int", "float", "str"), n the numeric payload  *)
(* (a bool is the int 0 or 1, as in Python), s the string payload.  Floats *)
(* that occur in the modelled programs are integral, so n is an integer.   *)
(* What print() writes is recorded as the value printed, not as its text.  *)
(***************************************************************************)
EXTENDS Integers, Sequences, FiniteSets, TLC

VARIABLES
    mode,          \* how the program was started: "usage", "file", "prompt";
                   \* "vm": a VirtualMachine is given an IR program; "text":
                   \* run() is given a source text; "reuse": one
                   \* IRGenerator and one VirtualMachine are given
                   \* statement lists in turn
    input,         \* prompt: the lines typed; file: the script; vm: the IR
                   \* program; text: the characters; reuse: the lists
    pos,           \* number of input lines consumed by input()
    pc,            \* position of the driver
    prompts,       \* number of times the prompt "> " has been written
    out,           \* what has been printed so far
    exitStatus,    \* the exit status of the process
    instructions,  \* VirtualMachine.instructions
    ip,            \* VirtualMachine.ip (0-based, as in the code)
    stack,         \* VirtualMachine.stack
    globals,       \* VirtualMachine.globals
    labels,        \* VirtualMachine.labels
    call_stack,    \* VirtualMachine.call_stack
    exc,           \* the exception being propagated, NoExc when none
    toks,          \* tokens: Lexer.tokens, which the Parser is given
    start,         \* Lexer.start
    current,       \* Lexer.current
    parsed,        \* statements: what Parser.parse returned to run()
    label_counter  \* IRGenerator.label_counter of the generator that is reused

vars == <<mode, input, pos, pc, prompts, out, exitStatus,
          instructions, ip, stack, globals, labels, call_stack, exc,
          toks, start, current, parsed, label_counter>>

vmVars == <<instructions, ip, stack, globals, labels, call_stack>>

frontVars == <<toks, start, current, parsed, label_counter>>

driverVars == <<mode, input, pos, prompts, exitStatus, frontVars>>

-----------------------------------------------------------------------------
(* Python values.  A number is its whole part n; a float literal with a    *)
(* fraction keeps the fraction's digits in s.  Arithmetic is modelled on   *)
(* whole numbers, which is what the sources here compute with.             *)

Nil == [t |-> "nil", n |-> 0, s |-> ""]

PyBool(b) == [t |-> "bool", n |-> IF b THEN 1 ELSE 0, s |-> ""]

PyInt(i) == [t |-> "int", n |-> i, s |-> ""]

PyFloat(x) == [t |-> "float", n |-> x, s |-> ""]

PyStr(x) == [t |-> "str", n |-> 0, s |-> x]

IsNumeric(v) == v.t \in {"bool", "int", "float"}

\* The type of the result of Python arithmetic on two numeric values.
NumType(a, b) == IF a.t = "float" \/ b.t = "float" THEN "float" ELSE "int"

Number(t, i) == [t |-> t, n |-> i, s |-> ""]

EmptyMap == [x \in {} |-> Nil]

-----------------------------------------------------------------------------
(* Exceptions *)

NoExc == [type |-> "", msg |-> ""]

Exc(type, msg) == [type |-> type, msg |-> msg]

RuntimeError(msg) == Exc("RuntimeError", msg)

TypeError == Exc("TypeError", "unsupported operand type(s)")

IndexError == Exc("IndexError", "pop from empty list")

ZeroDivisionError == Exc("ZeroDivisionError", "division by zero")

\* The result of an operator that raised instead of returning a value.
Raised(e) == [t |-> "raise", n |-> 0, s |-> e.type]

IsRaised(v) == v.t = "raise"

ExcOf(v) == IF v.s = "TypeError" THEN TypeError ELSE ZeroDivisionError

-----------------------------------------------------------------------------
(* Python's operators on values, as execute_instruction applies them *)

\* bool(value): what "not value", "if condition" and "a and b" test.
PyTruthy(v) ==
    CASE v.t = "nil" -> FALSE
      [] v.t = "str" -> v.s # ""
      [] OTHER -> v.n # 0 \/ v.s # ""

\* a == b
PyEq(a, b) ==
    CASE IsNumeric(a) /\ IsNumeric(b) -> a.n = b.n /\ a.s = b.s
      [] a.t = "str" /\ b.t = "str" -> a.s = b.s
      [] a.t = "nil" /\ b.t = "nil" -> TRUE
      [] OTHER -> FALSE

\* a + b
PyAdd(a, b) ==
    CASE IsNumeric(a) /\ IsNumeric(b) -> Number(NumType(a, b), a.n + b.n)
      [] a.t = "str" /\ b.t = "str" -> PyStr(a.s \o b.s)
      [] OTHER -> Raised(TypeError)

\* a - b
PySub(a, b) ==
    IF IsNumeric(a) /\ IsNumeric(b)
    THEN Number(NumType(a, b), a.n - b.n)
    ELSE Raised(TypeError)

\* s * k for a string s and an int (or bool) k
RECURSIVE Repeat(_, _)
Repeat(s, k) == IF k <= 0 THEN "" ELSE s \o Repeat(s, k - 1)

\* a * b
PyMul(a, b) ==
    CASE IsNumeric(a) /\ IsNumeric(b) -> Number(NumType(a, b), a.n * b.n)
      [] a.t = "str" /\ b.t \in {"bool", "int"} -> PyStr(Repeat(a.s, b.n))
      [] b.t = "str" /\ a.t \in {"bool", "int"} -> PyStr(Repeat(b.s, a.n))
      [] OTHER -> Raised(TypeError)

\* a / b: true division.  The quotients of the modelled programs are exact.
PyDiv(a, b) ==
    CASE ~(IsNumeric(a) /\ IsNumeric(b)) -> Raised(TypeError)
      [] b.n = 0 -> Raised(ZeroDivisionError)
      [] OTHER -> PyFloat(a.n \div b.n)

\* The order of two strings: Python compares them character by character.
\* The modelled strings are compared through the table StrRank.
StrRank(s) ==
    CASE s = "" -> 0
      [] s = "L1" -> 1
      [] s = "L2" -> 2
      [] s = "a" -> 3
      [] s = "ab" -> 4
      [] s = "b" -> 5
      [] OTHER -> 6

\* a < b, a <= b, a > b, a >= b
PyCompare(op, a, b) ==
    LET x == IF a.t = "str" THEN StrRank(a.s) ELSE a.n
        y == IF b.t = "str" THEN StrRank(b.s) ELSE b.n
    IN  IF (IsNumeric(a) /\ IsNumeric(b)) \/ (a.t = "str" /\ b.t = "str")
        THEN PyBool(CASE op = "GREATER" -> x > y
                    [] op = "GREATER_EQUAL" -> x >= y
                    [] op = "LESS" -> x < y
                    [] OTHER -> x <= y)
        ELSE Raised(TypeError)

BinaryOps == {"ADD", "SUB", "MUL", "DIV", "EQUAL", "NOT_EQUAL", "GREATER",
              "GREATER_EQUAL", "LESS", "LESS_EQUAL", "AND", "OR"}

\* The value a binary opcode computes from a (pushed first) and b (on top).
PyBinary(op, a, b) ==
    CASE op = "ADD" -> PyAdd(a, b)
      [] op = "SUB" -> PySub(a, b)
      [] op = "MUL" -> PyMul(a, b)
      [] op = "DIV" -> PyDiv(a, b)
      [] op = "EQUAL" -> PyBool(PyEq(a, b))
      [] op = "NOT_EQUAL" -> PyBool(~PyEq(a, b))
      [] op = "AND" -> IF PyTruthy(a) THEN b ELSE a
      [] op = "OR" -> IF PyTruthy(a) THEN a ELSE b
      [] OTHER -> PyCompare(op, a, b)

\* -value
PyNeg(v) ==
    IF IsNumeric(v)
    THEN Number(IF v.t = "float" THEN "float" ELSE "int", 0 - v.n)
    ELSE Raised(TypeError)

-----------------------------------------------------------------------------
(* IR instructions: an opcode with a value operand, a name operand and a   *)
(* count operand; an instruction uses the operands its opcode has.         *)

Ins(op) == [op |-> op, v |-> Nil, name |-> "", k |-> 0]

InsV(op, v) == [op |-> op, v |-> v, name |-> "", k |-> 0]

InsN(op, name) == [op |-> op, v |-> Nil, name |-> name, k |-> 0]

InsNK(op, name, k) == [op |-> op, v |-> Nil, name |-> name, k |-> k]

-----------------------------------------------------------------------------
(* The AST (parser.py): one record per node class, k naming the class.     *)
(* A token is modelled by its type or its lexeme, whichever the stages     *)
(* read: an operator token by its type, a name token by its lexeme.        *)

\* Python's None where a node is optional, and a declaration the parser dropped.
PyNone == [k |-> "None"]

Literal(value) == [k |-> "Literal", value |-> value]

Variable(name) == [k |-> "Variable", name |-> name]

Grouping(expression) == [k |-> "Grouping", expression |-> expression]

Unary(operator, right) == [k |-> "Unary", operator |-> operator, right |-> right]

Binary(left, operator, right) ==
    [k |-> "Binary", left |-> left, operator |-> operator, right |-> right]

Logical(left, operator, right) ==
    [k |-> "Logical", left |-> left, operator |-> operator, right |-> right]

Assignment(name, value) == [k |-> "Assignment", name |-> name, value |-> value]

Call(callee, arguments) ==
    [k |-> "Call", callee |-> callee, arguments |-> arguments]

Expression(expression) == [k |-> "Expression", expression |-> expression]

PrintStmt(expression) == [k |-> "Print", expression |-> expression]

Var(name, initializer) == [k |-> "Var", name |-> name, initializer |-> initializer]

Block(statements) == [k |-> "Block", statements |-> statements]

If(condition, then_branch, else_branch) ==
    [k |-> "If", condition |-> condition, then_branch |-> then_branch,
     else_branch |-> else_branch]

While(condition, body) == [k |-> "While", condition |-> condition, body |-> body]

Function(name, params, body) ==
    [k |-> "Function", name |-> name, params |-> params, body |-> body]

Return(value) == [k |-> "Return", value |-> value]

-----------------------------------------------------------------------------
(* IRGenerator (ir_generator.py).  The generator's state is the record     *)
(* [code, n, err]: the instructions emitted so far, label_counter, and the *)
(* message of the RuntimeError it raised ("" when none).                   *)

NewGenerator == [code |-> <<>>, n |-> 0, err |-> ""]

Emit(g, instr) == [g EXCEPT !.code = Append(@, instr)]

GenFail(g, msg) == [g EXCEPT !.err = msg]

\* new_label: the label returned and the generator after the call.
LabelText(n) == "L" \o ToString(n)

\* A label taken without advancing the counter.
SameLabel(g) == [label |-> LabelText(g.n + 1), g |-> g]

new_label(g) == [label |-> LabelText(g.n + 1), g |-> [g EXCEPT !.n = @ + 1]]

\* A traversal of the arguments in source order.
InSourceOrder(seq) == seq

\* reversed(expr.arguments)
Reversed(seq) == [i \in 1..Len(seq) |-> seq[Len(seq) + 1 - i]]

BinaryOpcode(operator) ==
    CASE operator = "PLUS" -> "ADD"
      [] operator = "MINUS" -> "SUB"
      [] operator = "STAR" -> "MUL"
      [] operator = "SLASH" -> "DIV"
      [] operator = "GREATER" -> "GREATER"
      [] operator = "GREATER_EQUAL" -> "GREATER_EQUAL"
      [] operator = "LESS" -> "LESS"
      [] operator = "LESS_EQUAL" -> "LESS_EQUAL"
      [] operator = "EQUAL_EQUAL" -> "EQUAL"
      [] operator = "BANG_EQUAL" -> "NOT_EQUAL"
      [] OTHER -> ""

RECURSIVE visit_expression(_, _)
RECURSIVE visit_expressions(_, _)
RECURSIVE visit_statement(_, _)
RECURSIVE visit_statements(_, _)

\* The expressions of seq lowered in order, stopping at the first failure.
visit_expressions(seq, g) ==
    IF seq = <<>> \/ g.err # "" THEN g
    ELSE visit_expressions(Tail(seq), visit_expression(Head(seq), g))

visit_binary(expr, g) ==
    LET g2 == visit_expressions(<<expr.left, expr.right>>, g)
        opcode == BinaryOpcode(expr.operator)
    IN  IF g2.err # "" THEN g2
        ELSE IF opcode = "" THEN GenFail(g2, "Unsupported binary operator")
        ELSE Emit(g2, Ins(opcode))

visit_unary(expr, g) ==
    LET g2 == visit_expression(expr.right, g)
    IN  IF g2.err # "" THEN g2
        ELSE IF expr.operator = "MINUS" THEN Emit(g2, Ins("NEG"))
        ELSE IF expr.operator = "BANG" THEN Emit(g2, Ins("NOT"))
        ELSE GenFail(g2, "Unsupported unary operator")

visit_assignment(expr, g) ==
    LET g2 == visit_expression(expr.value, g)
    IN  IF g2.err # "" THEN g2
        ELSE Emit(Emit(g2, Ins("DUP")), InsN("STORE", expr.name))

visit_call(expr, g) ==
    LET g2 == visit_expressions(Reversed(expr.arguments), g)
    IN  IF g2.err # "" THEN g2
        ELSE IF expr.callee.k = "Variable"
        THEN Emit(g2, InsNK("CALL", expr.callee.name, Len(expr.arguments)))
        ELSE GenFail(g2, "Can only call functions by name")

visit_logical(expr, g) ==
    IF expr.operator \in {"OR", "AND"}
    THEN LET l == new_label(g)
             jump == IF expr.operator = "OR" THEN "JMP_TRUE" ELSE "JMP_FALSE"
             g2 == visit_expression(expr.left, l.g)
             g3 == Emit(Emit(Emit(g2, Ins("DUP")), InsN(jump, l.label)), Ins("POP"))
             g4 == visit_expression(expr.right, g3)
         IN  IF g2.err # "" THEN g2
             ELSE IF g4.err # "" THEN g4
             ELSE Emit(g4, InsN("LABEL", l.label))
    ELSE GenFail(g, "Unsupported logical operator")

visit_expression(expr, g) ==
    CASE expr.k = "Binary" -> visit_binary(expr, g)
      [] expr.k = "Grouping" -> visit_expression(expr.expression, g)
      [] expr.k = "Literal" -> Emit(g, InsV("CONST", expr.value))
      [] expr.k = "Unary" -> visit_unary(expr, g)
      [] expr.k = "Variable" -> Emit(g, InsN("LOAD", expr.name))
      [] expr.k = "Assignment" -> visit_assignment(expr, g)
      [] expr.k = "Logical" -> visit_logical(expr, g)
      [] expr.k = "Call" -> visit_call(expr, g)
      [] OTHER -> GenFail(g, "Unsupported expression type")

\* The statements of seq lowered in order, stopping at the first failure.
visit_statements(seq, g) ==
    IF seq = <<>> \/ g.err # "" THEN g
    ELSE visit_statements(Tail(seq), visit_statement(Head(seq), g))

visit_if_statement(stmt, g) ==
    LET l1 == new_label(g)
        l2 == new_label(l1.g)
        g2 == visit_expression(stmt.condition, l2.g)
        g3 == visit_statement(stmt.then_branch, Emit(g2, InsN("JMP_FALSE", l1.label)))
        g4 == Emit(Emit(g3, InsN("JMP", l2.label)), InsN("LABEL", l1.label))
        g5 == IF stmt.else_branch.k # "None"
              THEN visit_statement(stmt.else_branch, g4) ELSE g4
    IN  IF g2.err # "" THEN g2
        ELSE IF g3.err # "" THEN g3
        ELSE IF g5.err # "" THEN g5
        ELSE Emit(g5, InsN("LABEL", l2.label))

visit_while_statement(stmt, g) ==
    LET l1 == new_label(g)
        l2 == new_label(l1.g)
        g2 == visit_expression(stmt.condition, Emit(l2.g, InsN("LABEL", l1.label)))
        g3 == visit_statement(stmt.body, Emit(g2, InsN("JMP_FALSE", l2.label)))
    IN  IF g2.err # "" THEN g2
        ELSE IF g3.err # "" THEN g3
        ELSE Emit(Emit(g3, InsN("JMP", l1.label)), InsN("LABEL", l2.label))

\* for param in stmt.params: PARAM param
RECURSIVE EmitParams(_, _)
EmitParams(params, g) ==
    IF params = <<>> THEN g
    ELSE EmitParams(Tail(params), Emit(g, InsN("PARAM", Head(params))))

\* A declaration whose body is not closed by the default return.
DeclarationLeftOpen(stmt, g) ==
    LET l1 == new_label(g)
        l2 == new_label(l1.g)
        g2 == Emit(Emit(Emit(l2.g, InsN("JMP", l2.label)), InsN("LABEL", l1.label)),
                   InsNK("FUNC", stmt.name, Len(stmt.params)))
        g3 == visit_statements(stmt.body, EmitParams(stmt.params, g2))
        g4 == Emit(g3, InsN("LABEL", l2.label))
    IN  IF g3.err # "" THEN g3
        ELSE Emit(Emit(g4, InsV("CONST", PyStr(l1.label))), InsN("STORE", stmt.name))

visit_function_declaration(stmt, g) ==
    LET l1 == new_label(g)
        l2 == new_label(l1.g)
        g2 == Emit(Emit(Emit(l2.g, InsN("JMP", l2.label)), InsN("LABEL", l1.label)),
                   InsNK("FUNC", stmt.name, Len(stmt.params)))
        g3 == visit_statements(stmt.body, EmitParams(stmt.params, g2))
        g4 == Emit(Emit(Emit(g3, InsV("CONST", Nil)), Ins("RETURN")),
                   InsN("LABEL", l2.label))
    IN  IF g3.err # "" THEN g3
        ELSE Emit(Emit(g4, InsV("CONST", PyStr(l1.label))), InsN("STORE", stmt.name))

visit_return_statement(stmt, g) ==
    LET g2 == IF stmt.value.k # "None" THEN visit_expression(stmt.value, g)
              ELSE Emit(g, InsV("CONST", Nil))
    IN  IF g2.err # "" THEN g2 ELSE Emit(g2, Ins("RETURN"))

visit_statement(stmt, g) ==
    CASE stmt.k = "Expression" ->
             LET g2 == visit_expression(stmt.expression, g)
             IN  IF g2.err # "" THEN g2 ELSE Emit(g2, Ins("POP"))
      [] stmt.k = "Print" ->
             LET g2 == visit_expression(stmt.expression, g)
             IN  IF g2.err # "" THEN g2 ELSE Emit(g2, Ins("PRINT"))
      [] stmt.k = "Var" ->
             LET g2 == IF stmt.initializer.k # "None"
                       THEN visit_expression(stmt.initializer, g)
                       ELSE Emit(g, InsV("CONST", PyInt(0)))
             IN  IF g2.err # "" THEN g2 ELSE Emit(g2, InsN("STORE", stmt.name))
      [] stmt.k = "Block" -> visit_statements(stmt.statements, g)
      [] stmt.k = "If" -> visit_if_statement(stmt, g)
      [] stmt.k = "While" -> visit_while_statement(stmt, g)
      [] stmt.k = "Function" -> visit_function_declaration(stmt, g)
      [] stmt.k = "Return" -> visit_return_statement(stmt, g)
      [] OTHER -> GenFail(g, "Unsupported statement type")

\* generate, on a generator whose label_counter is g.n
generate(statements, g) ==
    visit_statements(statements, [g EXCEPT !.code = <<>>])

-----------------------------------------------------------------------------
(* SemanticAnalyzer (semantic_analyzer.py).  A type is a string; an        *)
(* expression visit that raises yields "!sem" when the SemanticError holds *)
(* a token (analyze reports it) and "!attr" when it holds an expression,   *)
(* which has no line: analyze's handler then raises AttributeError.        *)

IsErr(type) == type \in {"!sem", "!attr"}

is_numeric_type(type_str) == type_str = "number" \/ type_str = "unknown"

is_boolean_type(type_str) == type_str = "boolean" \/ type_str = "unknown"

\* resolve_variable: the type of name in the innermost scope that has it,
\* "None" when no scope has it.
RECURSIVE resolve_variable(_, _)
resolve_variable(name, scopes) ==
    IF scopes = <<>> THEN "None"
    ELSE IF name \in DOMAIN scopes[Len(scopes)] THEN scopes[Len(scopes)][name]
    ELSE resolve_variable(name, SubSeq(scopes, 1, Len(scopes) - 1))

\* scopes[current_scope][name] = type
Declare(scopes, name, type) ==
    LET top == scopes[Len(scopes)]
        new == [x \in DOMAIN top \cup {name} |-> IF x = name THEN type ELSE top[x]]
    IN  [scopes EXCEPT ![Len(scopes)] = new]

visit_literal(expr) ==
    CASE expr.value.t = "bool" -> "boolean"
      [] expr.value.t = "float" -> "number"
      [] expr.value.t = "str" -> "string"
      [] expr.value.t = "nil" -> "nil"
      [] OTHER -> "unknown"

RECURSIVE TypeOf(_, _, _)
RECURSIVE ArgTypes(_, _, _)

\* register_function on every top-level function declaration, in order.
RECURSIVE RegisterFunctions(_, _)
RegisterFunctions(statements, functions) ==
    IF statements = <<>> THEN functions
    ELSE LET stmt == Head(statements)
             new == IF stmt.k = "Function"
                    THEN [x \in DOMAIN functions \cup {stmt.name} |->
                             IF x = stmt.name THEN Len(stmt.params) ELSE functions[x]]
                    ELSE functions
         IN  RegisterFunctions(Tail(statements), new)

\* The loop of visit_call over the arguments: "" when every argument has the
\* expected type "number" (or an unknown one), else the error raised.
ArgTypes(arguments, scopes, functions) ==
    IF arguments = <<>> THEN ""
    ELSE LET arg_type == TypeOf(Head(arguments), scopes, functions)
         IN  IF IsErr(arg_type) THEN arg_type
             ELSE IF arg_type # "number" /\ arg_type # "unknown" THEN "!sem"
             ELSE ArgTypes(Tail(arguments), scopes, functions)

\* The arity check of visit_call: the declared parameter count against the
\* number of arguments.
ArityMatches(expected_params, arguments) == expected_params = Len(arguments)

AnalyzerCall(expr, scopes, functions) ==
    IF expr.callee.k # "Variable" THEN "!sem"
    ELSE IF expr.callee.name \notin DOMAIN functions THEN "!sem"
    ELSE IF ~ArityMatches(functions[expr.callee.name], expr.arguments) THEN "!sem"
    ELSE LET e == ArgTypes(expr.arguments, scopes, functions)
         IN  IF e # "" THEN e ELSE "number"

AnalyzerBinary(expr, scopes, functions) ==
    LET left_type == TypeOf(expr.left, scopes, functions)
        right_type == TypeOf(expr.right, scopes, functions)
    IN  IF IsErr(left_type) THEN left_type
        ELSE IF IsErr(right_type) THEN right_type
        ELSE IF expr.operator \in {"PLUS", "MINUS", "STAR", "SLASH"}
        THEN IF is_numeric_type(left_type) /\ is_numeric_type(right_type)
             THEN "number" ELSE "!sem"
        ELSE IF expr.operator \in {"GREATER", "GREATER_EQUAL", "LESS", "LESS_EQUAL"}
        THEN IF is_numeric_type(left_type) /\ is_numeric_type(right_type)
             THEN "boolean" ELSE "!sem"
        ELSE IF expr.operator \in {"BANG_EQUAL", "EQUAL_EQUAL"}
        THEN IF left_type # right_type /\ left_type # "unknown"
                /\ right_type # "unknown"
             THEN "!sem" ELSE "boolean"
        ELSE "unknown"

AnalyzerUnary(expr, scopes, functions) ==
    LET right_type == TypeOf(expr.right, scopes, functions)
    IN  IF IsErr(right_type) THEN right_type
        ELSE IF expr.operator = "MINUS"
        THEN IF is_numeric_type(right_type) THEN "number" ELSE "!sem"
        ELSE IF expr.operator = "BANG" THEN "boolean"
        ELSE "unknown"

AnalyzerAssignment(expr, scopes, functions) ==
    LET var_type == resolve_variable(expr.name, scopes)
        value_type == TypeOf(expr.value, scopes, functions)
    IN  IF var_type = "None" THEN "!sem"
        ELSE IF IsErr(value_type) THEN value_type
        ELSE IF var_type # value_type /\ var_type # "unknown"
                /\ value_type # "unknown"
        THEN "!sem"
        ELSE var_type

AnalyzerLogical(expr, scopes, functions) ==
    LET left_type == TypeOf(expr.left, scopes, functions)
        right_type == TypeOf(expr.right, scopes, functions)
    IN  IF IsErr(left_type) THEN left_type
        ELSE IF IsErr(right_type) THEN right_type
        ELSE IF is_boolean_type(left_type) /\ is_boolean_type(right_type)
        THEN "boolean" ELSE "!sem"

\* SemanticAnalyzer.visit_expression
TypeOf(expr, scopes, functions) ==
    CASE expr.k = "Binary" -> AnalyzerBinary(expr, scopes, functions)
      [] expr.k = "Grouping" -> TypeOf(expr.expression, scopes, functions)
      [] expr.k = "Literal" -> visit_literal(expr)
      [] expr.k = "Unary" -> AnalyzerUnary(expr, scopes, functions)
      [] expr.k = "Variable" ->
             LET var_type == resolve_variable(expr.name, scopes)
             IN  IF var_type = "None" THEN "!sem" ELSE var_type
      [] expr.k = "Assignment" -> AnalyzerAssignment(expr, scopes, functions)
      [] expr.k = "Logical" -> AnalyzerLogical(expr, scopes, functions)
      [] expr.k = "Call" -> AnalyzerCall(expr, scopes, functions)
      [] OTHER -> "unknown"

\* The analyzer while it visits statements: its scopes and the error raised.
RECURSIVE Analyze(_, _, _)
RECURSIVE AnalyzeAll(_, _, _)

\* for param in stmt.params: scopes[current_scope][param] = "number"
RECURSIVE DeclareParams(_, _)
DeclareParams(params, scopes) ==
    IF params = <<>> THEN scopes
    ELSE DeclareParams(Tail(params), Declare(scopes, Head(params), "number"))

\* begin_scope, the statements, end_scope
AnalyzeScope(statements, scopes, functions) ==
    LET a == AnalyzeAll(statements, scopes, functions)
    IN  IF a.err # "" THEN a
        ELSE [a EXCEPT !.scopes = SubSeq(@, 1, Len(@) - 1)]

AnalyzeCondition(stmt, scopes, functions) ==
    LET condition_type == TypeOf(stmt.condition, scopes, functions)
    IN  IF IsErr(condition_type) THEN condition_type
        ELSE IF ~is_boolean_type(condition_type) /\ condition_type # "unknown"
        THEN "!attr"
        ELSE ""

\* SemanticAnalyzer.visit_statement
Analyze(stmt, scopes, functions) ==
    LET ok == [err |-> "", scopes |-> scopes]
        fail(e) == [err |-> e, scopes |-> scopes]
        check(type) == IF IsErr(type) THEN fail(type) ELSE ok
    IN  CASE stmt.k \in {"Expression", "Print"} ->
                 check(TypeOf(stmt.expression, scopes, functions))
          [] stmt.k = "Var" ->
                 LET var_type == IF stmt.initializer.k # "None"
                                 THEN TypeOf(stmt.initializer, scopes, functions)
                                 ELSE "number"
                 IN  IF IsErr(var_type) THEN fail(var_type)
                     ELSE [err |-> "", scopes |-> Declare(scopes, stmt.name, var_type)]
          [] stmt.k = "Block" ->
                 AnalyzeScope(stmt.statements, Append(scopes, EmptyMap), functions)
          [] stmt.k = "If" ->
                 LET e == AnalyzeCondition(stmt, scopes, functions)
                     a == Analyze(stmt.then_branch, scopes, functions)
                 IN  IF e # "" THEN fail(e)
                     ELSE IF a.err # "" \/ stmt.else_branch.k = "None" THEN a
                     ELSE Analyze(stmt.else_branch, a.scopes, functions)
          [] stmt.k = "While" ->
                 LET e == AnalyzeCondition(stmt, scopes, functions)
                 IN  IF e # "" THEN fail(e)
                     ELSE Analyze(stmt.body, scopes, functions)
          [] stmt.k = "Function" ->
                 AnalyzeScope(stmt.body,
                              DeclareParams(stmt.params, Append(scopes, EmptyMap)),
                              functions)
          [] stmt.k = "Return" ->
                 IF stmt.value.k = "None" THEN ok
                 ELSE LET return_type == TypeOf(stmt.value, scopes, functions)
                      IN  IF IsErr(return_type) THEN fail(return_type)
                          ELSE IF ~is_numeric_type(return_type)
                                  /\ return_type # "unknown"
                          THEN fail("!sem")
                          ELSE ok
          [] OTHER -> ok

AnalyzeAll(statements, scopes, functions) ==
    IF statements = <<>> THEN [err |-> "", scopes |-> scopes]
    ELSE LET a == Analyze(Head(statements), scopes, functions)
         IN  IF a.err # "" THEN a
             ELSE AnalyzeAll(Tail(statements), a.scopes, functions)

\* The names register_function stores in the global scope.
FunctionScope(functions) == [x \in DOMAIN functions |-> "function"]

\* analyze: "" when it returns True, "!sem" when it prints the diagnostic and
\* returns False, "!attr" when AttributeError escapes from its handler.
analyze(statements) ==
    LET functions == RegisterFunctions(statements, [x \in {} |-> 0])
    IN  AnalyzeAll(statements, <<FunctionScope(functions)>>, functions).err

-----------------------------------------------------------------------------
(* VirtualMachine (virtual_machine.py) *)

Top(s) == s[Len(s)]

Pop(s) == SubSeq(s, 1, Len(s) - 1)

\* globals[name] = value
Bind(table, name, value) ==
    [x \in DOMAIN table \cup {name} |-> IF x = name THEN value ELSE table[x]]

\* The first pass of load_instructions over a label index that holds old.
LoadLabels(old, instrs) ==
    LET at(x) == {i \in 1..Len(instrs) : instrs[i].op = "LABEL" /\ instrs[i].name = x}
        names == {instrs[i].name : i \in {j \in 1..Len(instrs) : instrs[j].op = "LABEL"}}
        last(x) == CHOOSE i \in at(x) : \A j \in at(x) : j <= i
    IN  [x \in DOMAIN old \cup names |-> IF x \in names THEN last(x) - 1 ELSE old[x]]

\* A restore that brings back the saved table alone.
RestoreGlobalsSavedOnly(saved_globals, temp_globals) == saved_globals

\* RETURN's restore: the snapshot, plus the names the snapshot does not hold.
RestoreGlobals(saved_globals, temp_globals) ==
    [x \in DOMAIN saved_globals \cup DOMAIN temp_globals |->
        IF x \in DOMAIN saved_globals THEN saved_globals[x] ELSE temp_globals[x]]

\* The frame CALL pushes: the return position and the copy of globals.
Frame(return_ip, saved_globals) == [ip |-> return_ip, globals |-> saved_globals]

\* The instruction run() fetches
Cur == instructions[ip + 1]

Running == pc = "vm" /\ exc = NoExc /\ ip < Len(instructions)

At(opcodes) == Running /\ Cur.op \in opcodes

Printed(value) == [ch |-> "print", v |-> value]

Diagnostic(kind, msg) == [ch |-> kind, v |-> PyStr(msg)]

Opcodes == {"CONST", "POP", "DUP", "LOAD", "STORE", "NEG", "NOT", "JMP",
            "JMP_FALSE", "JMP_TRUE", "CALL", "RETURN", "PRINT", "LABEL",
            "FUNC", "PARAM"} \cup BinaryOps

ExecConst ==
    /\ At({"CONST"})
    /\ ip' = ip + 1
    /\ stack' = Append(stack, Cur.v)
    /\ UNCHANGED <<driverVars, pc, out, instructions, globals, labels, call_stack, exc>>

ExecPop ==
    /\ At({"POP"})
    /\ ip' = ip + 1
    /\ IF stack = <<>>
       THEN exc' = IndexError /\ stack' = stack
       ELSE exc' = exc /\ stack' = Pop(stack)
    /\ UNCHANGED <<driverVars, pc, out, instructions, globals, labels, call_stack>>

ExecDup ==
    /\ At({"DUP"})
    /\ ip' = ip + 1
    /\ IF stack = <<>>
       THEN exc' = IndexError /\ stack' = stack
       ELSE exc' = exc /\ stack' = Append(stack, Top(stack))
    /\ UNCHANGED <<driverVars, pc, out, instructions, globals, labels, call_stack>>

ExecLoad ==
    /\ At({"LOAD"})
    /\ ip' = ip + 1
    /\ IF Cur.name \notin DOMAIN globals
       THEN exc' = RuntimeError("Undefined variable: " \o Cur.name) /\ stack' = stack
       ELSE exc' = exc /\ stack' = Append(stack, globals[Cur.name])
    /\ UNCHANGED <<driverVars, pc, out, instructions, globals, labels, call_stack>>

ExecStore ==
    /\ At({"STORE"})
    /\ ip' = ip + 1
    /\ IF stack = <<>>
       THEN exc' = IndexError /\ UNCHANGED <<stack, globals>>
       ELSE /\ exc' = exc
            /\ stack' = Pop(stack)
            /\ globals' = Bind(globals, Cur.name, Top(stack))
    /\ UNCHANGED <<driverVars, pc, out, instructions, labels, call_stack>>

\* ADD .. LESS_EQUAL, AND, OR: b = pop, a = pop, push the result
ExecBinary ==
    /\ At(BinaryOps)
    /\ ip' = ip + 1
    /\ IF Len(stack) < 2
       THEN exc' = IndexError /\ stack' = <<>>
       ELSE LET b == Top(stack)
                a == Top(Pop(stack))
                r == PyBinary(Cur.op, a, b)
            IN  IF IsRaised(r)
                THEN exc' = ExcOf(r) /\ stack' = Pop(Pop(stack))
                ELSE exc' = exc /\ stack' = Append(Pop(Pop(stack)), r)
    /\ UNCHANGED <<driverVars, pc, out, instructions, globals, labels, call_stack>>

ExecNeg ==
    /\ At({"NEG"})
    /\ ip' = ip + 1
    /\ IF stack = <<>>
       THEN exc' = IndexError /\ stack' = stack
       ELSE IF IsRaised(PyNeg(Top(stack)))
       THEN exc' = TypeError /\ stack' = Pop(stack)
       ELSE exc' = exc /\ stack' = Append(Pop(stack), PyNeg(Top(stack)))
    /\ UNCHANGED <<driverVars, pc, out, instructions, globals, labels, call_stack>>

ExecNot ==
    /\ At({"NOT"})
    /\ ip' = ip + 1
    /\ IF stack = <<>>
       THEN exc' = IndexError /\ stack' = stack
       ELSE exc' = exc /\ stack' = Append(Pop(stack), PyBool(~PyTruthy(Top(stack))))
    /\ UNCHANGED <<driverVars, pc, out, instructions, globals, labels, call_stack>>

\* A JMP that goes on with the next instruction.
ExecJmpNext ==
    /\ At({"JMP"})
    /\ IF Cur.name \in DOMAIN labels
       THEN ip' = ip + 1 /\ exc' = exc
       ELSE ip' = ip + 1 /\ exc' = RuntimeError("Unknown label: " \o Cur.name)
    /\ UNCHANGED <<driverVars, pc, out, instructions, stack, globals, labels, call_stack>>

ExecJmp ==
    /\ At({"JMP"})
    /\ IF Cur.name \in DOMAIN labels
       THEN ip' = labels[Cur.name] /\ exc' = exc
       ELSE ip' = ip + 1 /\ exc' = RuntimeError("Unknown label: " \o Cur.name)
    /\ UNCHANGED <<driverVars, pc, out, instructions, stack, globals, labels, call_stack>>

\* A conditional jump that looks its label up only when the branch is taken.
ExecJmpIfTaken ==
    /\ At({"JMP_FALSE", "JMP_TRUE"})
    /\ IF stack = <<>>
       THEN exc' = IndexError /\ stack' = stack /\ ip' = ip + 1
       ELSE LET condition == PyTruthy(Top(stack))
                taken == IF Cur.op = "JMP_TRUE" THEN condition ELSE ~condition
            IN  /\ stack' = Pop(stack)
                /\ IF ~taken
                   THEN ip' = ip + 1 /\ exc' = exc
                   ELSE IF Cur.name \in DOMAIN labels
                   THEN ip' = labels[Cur.name] /\ exc' = exc
                   ELSE ip' = ip + 1 /\ exc' = RuntimeError("Unknown label: " \o Cur.name)
    /\ UNCHANGED <<driverVars, pc, out, instructions, globals, labels, call_stack>>

\* JMP_FALSE: branch when "not condition"; JMP_TRUE: branch when "condition"
ExecJmpIf ==
    /\ At({"JMP_FALSE", "JMP_TRUE"})
    /\ IF stack = <<>>
       THEN exc' = IndexError /\ stack' = stack /\ ip' = ip + 1
       ELSE LET condition == PyTruthy(Top(stack))
                taken == IF Cur.op = "JMP_TRUE" THEN condition ELSE ~condition
            IN  /\ stack' = Pop(stack)
                /\ IF taken /\ Cur.name \in DOMAIN labels
                   THEN ip' = labels[Cur.name] /\ exc' = exc
                   ELSE IF Cur.name \notin DOMAIN labels
                   THEN ip' = ip + 1 /\ exc' = RuntimeError("Unknown label: " \o Cur.name)
                   ELSE ip' = ip + 1 /\ exc' = exc
    /\ UNCHANGED <<driverVars, pc, out, instructions, globals, labels, call_stack>>

\* CALL of a name bound to a label string: push the frame, jump to the label.
\* CALL of a name bound to anything else: handle_builtin_function.
ExecCall ==
    /\ At({"CALL"})
    /\ LET func_name == Cur.name
           arg_count == Cur.k
           func_label == globals[func_name]
       IN  IF func_name \notin DOMAIN globals
           THEN /\ exc' = RuntimeError("Undefined function: " \o func_name)
                /\ ip' = ip + 1
                /\ UNCHANGED <<stack, call_stack, out>>
           ELSE IF func_label.t = "str" /\ func_label.s \in DOMAIN labels
           THEN /\ call_stack' = Append(call_stack, Frame(ip + 1, globals))
                /\ ip' = labels[func_label.s]
                /\ UNCHANGED <<stack, out, exc>>
           ELSE IF func_name # "print"
           THEN /\ exc' = RuntimeError("Unknown built-in function: " \o func_name)
                /\ ip' = ip + 1
                /\ UNCHANGED <<stack, call_stack, out>>
           ELSE IF arg_count # 1
           THEN /\ exc' = RuntimeError("print() takes exactly 1 argument")
                /\ ip' = ip + 1
                /\ UNCHANGED <<stack, call_stack, out>>
           ELSE IF stack = <<>>
           THEN /\ exc' = IndexError
                /\ ip' = ip + 1
                /\ UNCHANGED <<stack, call_stack, out>>
           ELSE /\ out' = Append(out, Printed(Top(stack)))
                /\ stack' = Pop(stack)
                /\ ip' = ip + 1
                /\ UNCHANGED <<call_stack, exc>>
    /\ UNCHANGED <<driverVars, pc, instructions, globals, labels>>

ExecReturn ==
    /\ At({"RETURN"})
    /\ IF stack = <<>>
       THEN /\ exc' = IndexError
            /\ ip' = ip + 1
            /\ UNCHANGED <<stack, globals, call_stack>>
       ELSE IF call_stack # <<>>
       THEN /\ ip' = Top(call_stack).ip
            /\ call_stack' = Pop(call_stack)
            /\ globals' = RestoreGlobals(Top(call_stack).globals, globals)
            /\ UNCHANGED <<stack, exc>>
       ELSE /\ ip' = ip + 1
            /\ UNCHANGED <<stack, globals, call_stack, exc>>
    /\ UNCHANGED <<driverVars, pc, out, instructions, labels>>

ExecPrint ==
    /\ At({"PRINT"})
    /\ ip' = ip + 1
    /\ IF stack = <<>>
       THEN exc' = IndexError /\ UNCHANGED <<stack, out>>
       ELSE exc' = exc /\ stack' = Pop(stack) /\ out' = Append(out, Printed(Top(stack)))
    /\ UNCHANGED <<driverVars, pc, instructions, globals, labels, call_stack>>

\* LABEL and FUNC do nothing when executed.
ExecLabel ==
    /\ At({"LABEL", "FUNC"})
    /\ ip' = ip + 1
    /\ UNCHANGED <<driverVars, pc, out, instructions, stack, globals, labels,
                   call_stack, exc>>

ExecParam ==
    /\ At({"PARAM"})
    /\ ip' = ip + 1
    /\ IF stack # <<>>
       THEN stack' = Pop(stack) /\ globals' = Bind(globals, Cur.name, Top(stack))
       ELSE UNCHANGED <<stack, globals>>
    /\ UNCHANGED <<driverVars, pc, out, instructions, labels, call_stack, exc>>

ExecUnknown ==
    /\ Running
    /\ Cur.op \notin Opcodes
    /\ ip' = ip + 1
    /\ exc' = RuntimeError("Unknown instruction: " \o Cur.op)
    /\ UNCHANGED <<driverVars, pc, out, instructions, stack, globals, labels, call_stack>>

-----------------------------------------------------------------------------
(* Lexer (lexer.py).  A source is a sequence of characters; a token is the *)
(* record [type, lexeme, literal] with the lexeme as the characters it     *)
(* spans.  The line counter, which only numbers the diagnostics, is left   *)
(* out.                                                                    *)

Token(token_type, lexeme, literal) ==
    [type |-> token_type, lexeme |-> lexeme, literal |-> literal]

\* "".join(chars): the string a sequence of characters spells
RECURSIVE Join(_)
Join(chars) == IF chars = <<>> THEN "" ELSE Head(chars) \o Join(Tail(chars))

\* Lexer.__init__: the tokens, start, current, and what has been printed
NewLexer == [tokens |-> <<>>, start |-> 0, current |-> 0, msgs |-> <<>>]

keywords(text) ==
    CASE text = "and" -> "AND"
      [] text = "class" -> "CLASS"
      [] text = "else" -> "ELSE"
      [] text = "false" -> "FALSE"
      [] text = "function" -> "FUNCTION"
      [] text = "for" -> "FOR"
      [] text = "if" -> "IF"
      [] text = "let" -> "LET"
      [] text = "nil" -> "NIL"
      [] text = "or" -> "OR"
      [] text = "return" -> "RETURN"
      [] text = "true" -> "TRUE"
      [] text = "while" -> "WHILE"
      [] text = "print" -> "PRINT"
      [] OTHER -> "IDENTIFIER"

is_at_end(source, lx) == lx.current >= Len(source)

\* peek: the character at current, "\0" (here "") at the end
peek(source, lx) == IF is_at_end(source, lx) THEN "" ELSE source[lx.current + 1]

peek_next(source, lx) ==
    IF lx.current + 1 >= Len(source) THEN "" ELSE source[lx.current + 2]

is_digit(c) == c \in {"0", "1", "2", "3", "4", "5", "6", "7", "8", "9"}

is_alpha(c) ==
    c \in {"a", "b", "c", "d", "e", "f", "g", "h", "i", "j", "k", "l", "m", "n", "o", "p", "q", "r", "s", "t", "u", "v", "w", "x", "y", "z",
           "A", "B", "C", "D", "E", "F", "G", "H", "I", "J", "K", "L", "M", "N", "O", "P", "Q", "R", "S", "T", "U", "V", "W", "X", "Y", "Z",
           "_"}

is_alphanumeric(c) == is_alpha(c) \/ is_digit(c)

advance(lx) == [lx EXCEPT !.current = @ + 1]

\* match(expected)
MatchChar(source, lx, expected) ==
    ~is_at_end(source, lx) /\ source[lx.current + 1] = expected

\* A token whose lexeme is its text without the first and the last character.
AddTokenUnquoted(source, lx, token_type, literal) ==
    [lx EXCEPT !.tokens = Append(@, Token(token_type,
                                          SubSeq(source, lx.start + 2, lx.current - 1),
                                          literal))]

\* Lexer.add_token
add_token(source, lx, token_type, literal) ==
    [lx EXCEPT !.tokens = Append(@, Token(token_type,
                                          SubSeq(source, lx.start + 1, lx.current),
                                          literal))]

\* while is_digit(peek()) / is_alphanumeric(peek()): advance()
RECURSIVE AdvanceWhile(_, _, _)
AdvanceWhile(source, lx, alnum) ==
    LET c == peek(source, lx)
    IN  IF (IF alnum THEN is_alphanumeric(c) ELSE is_digit(c))
        THEN AdvanceWhile(source, advance(lx), alnum)
        ELSE lx

\* while peek() != stop and not is_at_end(): advance()
RECURSIVE AdvanceUntil(_, _, _)
AdvanceUntil(source, lx, stop) ==
    IF peek(source, lx) # stop /\ ~is_at_end(source, lx)
    THEN AdvanceUntil(source, advance(lx), stop)
    ELSE lx

DigitValue(c) ==
    CASE c = "0" -> 0 [] c = "1" -> 1 [] c = "2" -> 2 [] c = "3" -> 3 [] c = "4" -> 4
      [] c = "5" -> 5 [] c = "6" -> 6 [] c = "7" -> 7 [] c = "8" -> 8 [] OTHER -> 9

RECURSIVE DecimalValue(_)
DecimalValue(digits) ==
    IF digits = <<>> THEN 0
    ELSE 10 * DecimalValue(SubSeq(digits, 1, Len(digits) - 1)) + DigitValue(digits[Len(digits)])

RECURSIVE StripZeros(_)
StripZeros(digits) ==
    IF digits # <<>> /\ digits[Len(digits)] = "0"
    THEN StripZeros(SubSeq(digits, 1, Len(digits) - 1))
    ELSE digits

\* float(text) for digits, or digits "." digits: the whole part is the
\* payload n, the digits of the fraction, without trailing zeros, are kept in s.
FloatOf(text) ==
    LET dots == {i \in 1..Len(text) : text[i] = "."}
        dot == IF dots = {} THEN Len(text) + 1 ELSE CHOOSE i \in dots : TRUE
    IN  [t |-> "float",
         n |-> DecimalValue(SubSeq(text, 1, dot - 1)),
         s |-> Join(StripZeros(SubSeq(text, dot + 1, Len(text))))]

\* Lexer.string
ScanString(source, lx) ==
    LET l2 == AdvanceUntil(source, lx, "\"")
        l3 == advance(l2)
    IN  IF is_at_end(source, l2)
        THEN [l2 EXCEPT !.msgs = Append(@, "Unterminated string")]
        ELSE add_token(source, l3, "STRING",
                       PyStr(Join(SubSeq(source, lx.start + 2, l3.current - 1))))

\* Lexer.number
ScanNumber(source, lx) ==
    LET l2 == AdvanceWhile(source, lx, FALSE)
        l3 == IF peek(source, l2) = "." /\ is_digit(peek_next(source, l2))
              THEN AdvanceWhile(source, advance(l2), FALSE)
              ELSE l2
    IN  add_token(source, l3, "NUMBER", FloatOf(SubSeq(source, lx.start + 1, l3.current)))

\* Lexer.identifier
ScanIdentifier(source, lx) ==
    LET l2 == AdvanceWhile(source, lx, TRUE)
    IN  add_token(source, l2, keywords(Join(SubSeq(source, lx.start + 1, l2.current))), Nil)

SingleCharacter(c) ==
    CASE c = "(" -> "LEFT_PAREN" [] c = ")" -> "RIGHT_PAREN"
      [] c = "{" -> "LEFT_BRACE" [] c = "}" -> "RIGHT_BRACE"
      [] c = "," -> "COMMA" [] c = "." -> "DOT" [] c = "-" -> "MINUS"
      [] c = "+" -> "PLUS" [] c = ";" -> "SEMICOLON" [] OTHER -> "STAR"

\* One or two character tokens: the type without and with a following "="
TwoCharacter(c) ==
    CASE c = "!" -> <<"BANG", "BANG_EQUAL">>
      [] c = "=" -> <<"EQUAL", "EQUAL_EQUAL">>
      [] c = "<" -> <<"LESS", "LESS_EQUAL">>
      [] OTHER -> <<"GREATER", "GREATER_EQUAL">>

\* Lexer.scan_token, called with start = current and not at the end
scan_token(source, lx0) ==
    LET c == source[lx0.current + 1]
        lx == advance(lx0)
    IN  CASE c \in {"(", ")", "{", "}", ",", ".", "-", "+", ";", "*"} ->
                 add_token(source, lx, SingleCharacter(c), Nil)
          [] c \in {"!", "=", "<", ">"} ->
                 IF MatchChar(source, lx, "=")
                 THEN add_token(source, advance(lx), TwoCharacter(c)[2], Nil)
                 ELSE add_token(source, lx, TwoCharacter(c)[1], Nil)
          [] c = "/" ->
                 IF MatchChar(source, lx, "/")
                 THEN AdvanceUntil(source, advance(lx), "\n")
                 ELSE add_token(source, lx, "SLASH", Nil)
          [] c \in {" ", "\r", "\t", "\n"} -> lx
          [] c = "\"" -> ScanString(source, lx)
          [] is_digit(c) -> ScanNumber(source, lx)
          [] is_alpha(c) -> ScanIdentifier(source, lx)
          [] OTHER -> [lx EXCEPT !.msgs = Append(@, "Unexpected character")]

\* A last token that is not the EOF token.
NoEofToken == Token("SEMICOLON", <<>>, Nil)

\* Token(TokenType.EOF, "", None, self.line)
EofToken == Token("EOF", <<>>, Nil)

\* Lexer.scan_tokens, from the lexer state lx on
RECURSIVE scan_tokens(_, _)
scan_tokens(source, lx) ==
    IF is_at_end(source, lx)
    THEN [lx EXCEPT !.tokens = Append(@, EofToken)]
    ELSE scan_tokens(source, scan_token(source, [lx EXCEPT !.start = lx.current]))

-----------------------------------------------------------------------------
(* Parser (parser.py).  A parsing function takes the tokens and a record   *)
(* holding the parser's position cur and the messages printed so far, and  *)
(* yields such a record with the node built; err tells that it raised.     *)
(* Nodes hold names and operators as strings, not as tokens.  The limits   *)
(* of 255 parameters and arguments lie beyond the modelled sources.        *)

NewParser == [node |-> PyNone, cur |-> 0, msgs |-> <<>>, err |-> FALSE]

\* Parser.peek, Parser.previous
PeekToken(tokens, st) == tokens[st.cur + 1]

PreviousToken(tokens, st) == tokens[IF st.cur = 0 THEN Len(tokens) ELSE st.cur]

AtEnd(tokens, st) == PeekToken(tokens, st).type = "EOF"

\* Parser.check, for any of several types
Check(tokens, st, types) == ~AtEnd(tokens, st) /\ PeekToken(tokens, st).type \in types

\* Parser.advance
Advance(tokens, st) == IF AtEnd(tokens, st) THEN st ELSE [st EXCEPT !.cur = @ + 1]

Built(st, node) == [st EXCEPT !.node = node, !.err = FALSE]

\* raise self.error(self.peek(), message)
Raise(tokens, st, message) ==
    LET token == PeekToken(tokens, st)
        where == IF token.type = "EOF" THEN "Error at end: "
                 ELSE "Error at '" \o Join(token.lexeme) \o "': "
    IN  [st EXCEPT !.node = PyNone, !.msgs = Append(@, where \o message), !.err = TRUE]

\* Parser.consume: the node is the token consumed
consume(tokens, st, type, message) ==
    IF Check(tokens, st, {type})
    THEN Built(Advance(tokens, st), PeekToken(tokens, st))
    ELSE Raise(tokens, st, message)

\* Parser.synchronize
RECURSIVE SynchronizeLoop(_, _)
SynchronizeLoop(tokens, st) ==
    IF AtEnd(tokens, st) THEN st
    ELSE IF PreviousToken(tokens, st).type = "SEMICOLON" THEN st
    ELSE IF PeekToken(tokens, st).type \in
               {"CLASS", "FUNCTION", "LET", "FOR", "IF", "WHILE", "PRINT", "RETURN"}
    THEN st
    ELSE SynchronizeLoop(tokens, Advance(tokens, st))

synchronize(tokens, st) == SynchronizeLoop(tokens, Advance(tokens, st))

LevelOperators(level) ==
    CASE level = "or" -> {"OR"}
      [] level = "and" -> {"AND"}
      [] level = "equality" -> {"BANG_EQUAL", "EQUAL_EQUAL"}
      [] level = "comparison" -> {"GREATER", "GREATER_EQUAL", "LESS", "LESS_EQUAL"}
      [] level = "term" -> {"MINUS", "PLUS"}
      [] OTHER -> {"SLASH", "STAR"}

\* A ladder on which term stands below factor.
LevelBelowSwapped(level) ==
    CASE level = "or" -> "and"
      [] level = "and" -> "equality"
      [] level = "equality" -> "comparison"
      [] level = "comparison" -> "factor"
      [] level = "factor" -> "term"
      [] OTHER -> "unary"

\* The function a level calls for its operands.
LevelBelow(level) ==
    CASE level = "or" -> "and"
      [] level = "and" -> "equality"
      [] level = "equality" -> "comparison"
      [] level = "comparison" -> "term"
      [] level = "term" -> "factor"
      [] OTHER -> "unary"

RECURSIVE expression(_, _), assignment(_, _), Level(_, _, _), LevelOperand(_, _, _),
          LevelLoop(_, _, _), unary(_, _), call(_, _), CallLoop(_, _),
          finish_call(_, _, _), Arguments(_, _, _), primary(_, _)

\* What follows a call that may raise: the exception goes on up, else F
\* takes what the call returned.
Then(r, F(_)) == IF r.err THEN r ELSE F(r)

expression(tokens, st) == assignment(tokens, st)

or_(tokens, st) == Level(tokens, st, "or")

\* An assignment that raises at a target that is not a variable.
AssignmentRaising(tokens, st) ==
    Then(or_(tokens, st), LAMBDA expr :
        IF ~Check(tokens, expr, {"EQUAL"}) THEN expr
        ELSE Then(assignment(tokens, Advance(tokens, expr)), LAMBDA value :
            IF expr.node.k = "Variable"
            THEN Built(value, Assignment(expr.node.name, value.node))
            ELSE Raise(tokens, value, "Invalid assignment target.")))

assignment(tokens, st) ==
    Then(or_(tokens, st), LAMBDA expr :
        IF ~Check(tokens, expr, {"EQUAL"}) THEN expr
        ELSE Then(assignment(tokens, Advance(tokens, expr)), LAMBDA value :
            IF expr.node.k = "Variable"
            THEN Built(value, Assignment(expr.node.name, value.node))
            ELSE [value EXCEPT !.node = expr.node,
                               !.msgs = Append(@, "Error at '=': Invalid assignment target.")]))

\* or_, and_, equality, comparison, term, factor: operand (operator operand)*
Level(tokens, st, level) ==
    Then(LevelOperand(tokens, st, level), LAMBDA left : LevelLoop(tokens, left, level))

LevelOperand(tokens, st, level) ==
    IF LevelBelow(level) = "unary" THEN unary(tokens, st)
    ELSE Level(tokens, st, LevelBelow(level))

LevelLoop(tokens, left, level) ==
    IF ~Check(tokens, left, LevelOperators(level)) THEN left
    ELSE Then(LevelOperand(tokens, Advance(tokens, left), level), LAMBDA right :
        LevelLoop(tokens,
                  Built(right,
                        IF level \in {"or", "and"}
                        THEN Logical(left.node, PeekToken(tokens, left).type, right.node)
                        ELSE Binary(left.node, PeekToken(tokens, left).type, right.node)),
                  level))

unary(tokens, st) ==
    IF Check(tokens, st, {"BANG", "MINUS"})
    THEN Then(unary(tokens, Advance(tokens, st)), LAMBDA right :
             Built(right, Unary(PeekToken(tokens, st).type, right.node)))
    ELSE call(tokens, st)

call(tokens, st) ==
    Then(primary(tokens, st), LAMBDA expr : CallLoop(tokens, expr))

CallLoop(tokens, expr) ==
    IF Check(tokens, expr, {"LEFT_PAREN"})
    THEN Then(finish_call(tokens, Advance(tokens, expr), expr.node), LAMBDA c :
             CallLoop(tokens, c))
    ELSE expr

\* The loop of finish_call: the node is the list of the arguments parsed.
Arguments(tokens, st, arguments) ==
    Then(expression(tokens, st), LAMBDA arg :
        IF Check(tokens, arg, {"COMMA"})
        THEN Arguments(tokens, Advance(tokens, arg), Append(arguments, arg.node))
        ELSE Built(arg, Append(arguments, arg.node)))

finish_call(tokens, st, callee) ==
    Then(IF Check(tokens, st, {"RIGHT_PAREN"}) THEN Built(st, <<>>)
         ELSE Arguments(tokens, st, <<>>),
         LAMBDA arguments :
             Then(consume(tokens, arguments, "RIGHT_PAREN", "Expect ')' after arguments."),
                  LAMBDA paren : Built(paren, Call(callee, arguments.node))))

primary(tokens, st) ==
    CASE Check(tokens, st, {"FALSE"}) -> Built(Advance(tokens, st), Literal(PyBool(FALSE)))
      [] Check(tokens, st, {"TRUE"}) -> Built(Advance(tokens, st), Literal(PyBool(TRUE)))
      [] Check(tokens, st, {"NIL"}) -> Built(Advance(tokens, st), Literal(Nil))
      [] Check(tokens, st, {"NUMBER", "STRING"}) ->
             Built(Advance(tokens, st), Literal(PeekToken(tokens, st).literal))
      [] Check(tokens, st, {"IDENTIFIER"}) ->
             Built(Advance(tokens, st), Variable(Join(PeekToken(tokens, st).lexeme)))
      [] Check(tokens, st, {"LEFT_PAREN"}) ->
             Then(expression(tokens, Advance(tokens, st)), LAMBDA expr :
                 Then(consume(tokens, expr, "RIGHT_PAREN", "Expect ')' after expression."),
                      LAMBDA paren : Built(paren, Grouping(expr.node))))
      [] OTHER -> Raise(tokens, st, "Expect expression.")

RECURSIVE declaration(_, _), statement(_, _), BlockLoop(_, _), block(_, _),
          function(_, _), Parameters(_, _, _), for_statement(_, _), if_statement(_, _),
          while_statement(_, _)

var_declaration(tokens, st) ==
    Then(consume(tokens, st, "IDENTIFIER", "Expect variable name."), LAMBDA name :
        Then(IF Check(tokens, name, {"EQUAL"})
             THEN expression(tokens, Advance(tokens, name))
             ELSE Built(name, PyNone),
             LAMBDA initializer :
                 Then(consume(tokens, initializer, "SEMICOLON",
                              "Expect ';' after variable declaration."),
                      LAMBDA semi :
                          Built(semi, Var(Join(name.node.lexeme), initializer.node)))))

expression_statement(tokens, st) ==
    Then(expression(tokens, st), LAMBDA expr :
        Then(consume(tokens, expr, "SEMICOLON", "Expect ';' after expression."),
             LAMBDA semi : Built(semi, Expression(expr.node))))

print_statement(tokens, st) ==
    Then(expression(tokens, st), LAMBDA value :
        Then(consume(tokens, value, "SEMICOLON", "Expect ';' after value."),
             LAMBDA semi : Built(semi, PrintStmt(value.node))))

return_statement(tokens, st) ==
    Then(IF Check(tokens, st, {"SEMICOLON"}) THEN Built(st, PyNone)
         ELSE expression(tokens, st),
         LAMBDA value :
             Then(consume(tokens, value, "SEMICOLON", "Expect ';' after return value."),
                  LAMBDA semi : Built(semi, Return(value.node))))

\* What declaration returns for what it called: a declaration that raised is
\* synchronized past and yields None.
\* A declaration that raised yields None where the error left the parser.
RecoveredInPlace(tokens, d) == IF d.err THEN Built(d, PyNone) ELSE d

Recovered(tokens, d) == IF d.err THEN Built(synchronize(tokens, d), PyNone) ELSE d

\* Parser.declaration
declaration(tokens, st) ==
    Recovered(tokens,
              IF Check(tokens, st, {"FUNCTION"}) THEN function(tokens, Advance(tokens, st))
              ELSE IF Check(tokens, st, {"LET"})
              THEN var_declaration(tokens, Advance(tokens, st))
              ELSE statement(tokens, st))

\* The loop of function: the node is the list of the parameter names.
Parameters(tokens, st, parameters) ==
    Then(consume(tokens, st, "IDENTIFIER", "Expect parameter name."), LAMBDA name :
        IF Check(tokens, name, {"COMMA"})
        THEN Parameters(tokens, Advance(tokens, name),
                        Append(parameters, Join(name.node.lexeme)))
        ELSE Built(name, Append(parameters, Join(name.node.lexeme))))

function(tokens, st) ==
    Then(consume(tokens, st, "IDENTIFIER", "Expect function name."), LAMBDA name :
    Then(consume(tokens, name, "LEFT_PAREN", "Expect '(' after function name."),
         LAMBDA lparen :
    Then(IF Check(tokens, lparen, {"RIGHT_PAREN"}) THEN Built(lparen, <<>>)
         ELSE Parameters(tokens, lparen, <<>>),
         LAMBDA parameters :
    Then(consume(tokens, parameters, "RIGHT_PAREN", "Expect ')' after parameters."),
         LAMBDA rparen :
    Then(consume(tokens, rparen, "LEFT_BRACE", "Expect '{' before function body."),
         LAMBDA lbrace :
    Then(block(tokens, lbrace), LAMBDA body :
        Built(body, Function(Join(name.node.lexeme), parameters.node, body.node))))))))

statement(tokens, st) ==
    CASE Check(tokens, st, {"FOR"}) -> for_statement(tokens, Advance(tokens, st))
      [] Check(tokens, st, {"IF"}) -> if_statement(tokens, Advance(tokens, st))
      [] Check(tokens, st, {"PRINT"}) -> print_statement(tokens, Advance(tokens, st))
      [] Check(tokens, st, {"RETURN"}) -> return_statement(tokens, Advance(tokens, st))
      [] Check(tokens, st, {"WHILE"}) -> while_statement(tokens, Advance(tokens, st))
      [] Check(tokens, st, {"LEFT_BRACE"}) ->
             Then(block(tokens, Advance(tokens, st)), LAMBDA b : Built(b, Block(b.node)))
      [] OTHER -> expression_statement(tokens, st)

\* The loop a for statement stands for, built from its parts; a part left
\* out is None.
\* A loop whose increment stands before the body.
IncrementFirst(initializer, condition, increment, body) ==
    LET looped == While(IF condition.k = "None" THEN Literal(PyBool(TRUE)) ELSE condition,
                        IF increment.k # "None"
                        THEN Block(<<Expression(increment), body>>)
                        ELSE body)
    IN  IF initializer.k # "None" THEN Block(<<initializer, looped>>) ELSE looped

Desugared(initializer, condition, increment, body) ==
    LET looped == While(IF condition.k = "None" THEN Literal(PyBool(TRUE)) ELSE condition,
                        IF increment.k # "None"
                        THEN Block(<<body, Expression(increment)>>)
                        ELSE body)
    IN  IF initializer.k # "None" THEN Block(<<initializer, looped>>) ELSE looped

for_statement(tokens, st) ==
    Then(consume(tokens, st, "LEFT_PAREN", "Expect '(' after 'for'."), LAMBDA lparen :
    Then(IF Check(tokens, lparen, {"SEMICOLON"})
         THEN Built(Advance(tokens, lparen), PyNone)
         ELSE IF Check(tokens, lparen, {"LET"})
         THEN var_declaration(tokens, Advance(tokens, lparen))
         ELSE expression_statement(tokens, lparen),
         LAMBDA initializer :
    Then(IF ~Check(tokens, initializer, {"SEMICOLON"})
         THEN expression(tokens, initializer)
         ELSE Built(initializer, PyNone),
         LAMBDA condition :
    Then(consume(tokens, condition, "SEMICOLON", "Expect ';' after loop condition."),
         LAMBDA semi :
    Then(IF ~Check(tokens, semi, {"RIGHT_PAREN"})
         THEN expression(tokens, semi)
         ELSE Built(semi, PyNone),
         LAMBDA increment :
    Then(consume(tokens, increment, "RIGHT_PAREN", "Expect ')' after for clauses."),
         LAMBDA rparen :
    Then(statement(tokens, rparen), LAMBDA body :
        Built(body, Desugared(initializer.node, condition.node, increment.node,
                              body.node)))))))))

if_statement(tokens, st) ==
    Then(consume(tokens, st, "LEFT_PAREN", "Expect '(' after 'if'."), LAMBDA lparen :
    Then(expression(tokens, lparen), LAMBDA condition :
    Then(consume(tokens, condition, "RIGHT_PAREN", "Expect ')' after if condition."),
         LAMBDA rparen :
    Then(statement(tokens, rparen), LAMBDA then_branch :
    Then(IF Check(tokens, then_branch, {"ELSE"})
         THEN statement(tokens, Advance(tokens, then_branch))
         ELSE Built(then_branch, PyNone),
         LAMBDA else_branch :
             Built(else_branch,
                   If(condition.node, then_branch.node, else_branch.node)))))))

while_statement(tokens, st) ==
    Then(consume(tokens, st, "LEFT_PAREN", "Expect '(' after 'while'."), LAMBDA lparen :
    Then(expression(tokens, lparen), LAMBDA condition :
    Then(consume(tokens, condition, "RIGHT_PAREN", "Expect ')' after condition."),
         LAMBDA rparen :
    Then(statement(tokens, rparen), LAMBDA body :
        Built(body, While(condition.node, body.node))))))

\* What the loops of block and parse go on with after a declaration: the
\* parser past it, holding the list with what the declaration returned.
Collected(d, statements) == Built(d, Append(statements, d.node))

\* The loop of block: the node is the list of what declaration returned.
BlockLoop(tokens, st) ==
    IF ~Check(tokens, st, {"RIGHT_BRACE"}) /\ ~AtEnd(tokens, st)
    THEN BlockLoop(tokens, Collected(declaration(tokens, st), st.node))
    ELSE st

block(tokens, st) ==
    Then(BlockLoop(tokens, Built(st, <<>>)), LAMBDA body :
        Then(consume(tokens, body, "RIGHT_BRACE", "Expect '}' after block."),
             LAMBDA rbrace : Built(rbrace, body.node)))

\* Parser.parse, from the position of st on: the node is the list returned.
RECURSIVE ParseLoop(_, _)
ParseLoop(tokens, st) ==
    IF AtEnd(tokens, st) THEN st
    ELSE ParseLoop(tokens, Collected(declaration(tokens, st), st.node))

parse(tokens) == ParseLoop(tokens, Built(NewParser, <<>>))

-----------------------------------------------------------------------------
(* The inputs: source programs, given as the statement lists the parser    *)
(* builds for them (file and prompt mode) or as their text (text mode),    *)
(* and IR programs loaded into a VM directly.                              *)

Num(x) == Literal(PyFloat(x))

CallOf(name, arguments) == Call(Variable(name), arguments)

\* let x = 1; function f() { x = 2; let y = 3; return 0; } f(); print x;
SrcScope ==
    <<Var("x", Num(1)),
      Function("f", <<>>, <<Expression(Assignment("x", Num(2))),
                            Var("y", Num(3)),
                            Return(Num(0))>>),
      Expression(CallOf("f", <<>>)),
      PrintStmt(Variable("x"))>>

\* function f(a, b) { return a - b; } print f(10, 3);
SrcSub ==
    <<Function("f", <<"a", "b">>,
               <<Return(Binary(Variable("a"), "MINUS", Variable("b")))>>),
      PrintStmt(CallOf("f", <<Num(10), Num(3)>>))>>

\* function f(a, a) { return a; } print f(1, 2);
SrcDupParam ==
    <<Function("f", <<"a", "a">>, <<Return(Variable("a"))>>),
      PrintStmt(CallOf("f", <<Num(1), Num(2)>>))>>

\* function g(x) { return x; } print g(1, 2);
SrcArity ==
    <<Function("g", <<"x">>, <<Return(Variable("x"))>>),
      PrintStmt(CallOf("g", <<Num(1), Num(2)>>))>>

\* function g(x) { return x; } print g(1, 2); function g(x, y) { return x; }
SrcRedeclare ==
    <<Function("g", <<"x">>, <<Return(Variable("x"))>>),
      PrintStmt(CallOf("g", <<Num(1), Num(2)>>)),
      Function("g", <<"x", "y">>, <<Return(Variable("x"))>>)>>

\* let z = true; { let z = 0; } let w = 5;
\* print z or (w = 7) == 7; print z and true; if (!z) print w; else print 2;
SrcTruthy ==
    <<Var("z", Literal(PyBool(TRUE))),
      Block(<<Var("z", Num(0))>>),
      Var("w", Num(5)),
      PrintStmt(Logical(Variable("z"), "OR",
                        Binary(Grouping(Assignment("w", Num(7))), "EQUAL_EQUAL", Num(7)))),
      PrintStmt(Logical(Variable("z"), "AND", Literal(PyBool(TRUE)))),
      If(Unary("BANG", Variable("z")), PrintStmt(Variable("w")), PrintStmt(Num(2)))>>

\* print f(); function f() { return 1; }
SrcEarlyCall ==
    <<PrintStmt(CallOf("f", <<>>)),
      Function("f", <<>>, <<Return(Num(1))>>)>>

\* A source for which the parser returns no statements.
SrcNothing == <<>>

\* if (1) print 2;
SrcIfNumber == <<If(Num(1), PrintStmt(Num(2)), PyNone)>>

\* let i; while (i < 2) { i = i + 1; } print -i;
SrcLoop ==
    <<Var("i", PyNone),
      While(Binary(Variable("i"), "LESS", Num(2)),
            Block(<<Expression(Assignment("i",
                        Binary(Variable("i"), "PLUS", Num(1))))>>)),
      PrintStmt(Unary("MINUS", Variable("i")))>>

\* function f(n) { if (n < 1) return 0; let r = f(n - 1); return n; }
\* let k = 4; print f(1); print k;
SrcRecursion ==
    <<Function("f", <<"n">>,
               <<If(Binary(Variable("n"), "LESS", Num(1)), Return(Num(0)), PyNone),
                 Var("r", CallOf("f", <<Binary(Variable("n"), "MINUS", Num(1))>>)),
                 Return(Variable("n"))>>),
      Var("k", Num(4)),
      PrintStmt(CallOf("f", <<Num(1)>>)),
      PrintStmt(Variable("k"))>>

\* let x = 0; function f(a, b) { return a; } print f(x = 1, x = 2); print x;
SrcArgOrder ==
    <<Var("x", Num(0)),
      Function("f", <<"a", "b">>, <<Return(Variable("a"))>>),
      PrintStmt(CallOf("f", <<Assignment("x", Num(1)), Assignment("x", Num(2))>>)),
      PrintStmt(Variable("x"))>>

\* return 1; print 2;
SrcTopReturn == <<Return(Num(1)), PrintStmt(Num(2))>>

Sources ==
    <<SrcScope, SrcSub, SrcDupParam, SrcArity, SrcRedeclare, SrcTruthy,
      SrcEarlyCall, SrcNothing, SrcIfNumber, SrcLoop, SrcRecursion,
      SrcArgOrder, SrcTopReturn>>

\* What input() returns in interactive mode: the number of a source for a
\* line holding it, EmptyLine for "", Interrupt for a KeyboardInterrupt.
EmptyLine == 0

Interrupt == 0 - 1

Lines == {Interrupt, EmptyLine} \cup (1..Len(Sources))

\* The longest interactive session before the input stream ends.
MaxLines == 2

\* The number of prompts after which the model stops following the session.
MaxPrompts == 4

Sessions == UNION {[1..n -> Lines] : n \in 0..MaxLines}

\* The values the IR programs below push.
Samples ==
    {Nil, PyBool(TRUE), PyBool(FALSE), PyInt(0), PyFloat(0), PyFloat(2),
     PyStr(""), PyStr("a")}

\* print clock();
AstClock == <<PrintStmt(CallOf("clock", <<>>))>>

\* function f() { } print f + "a";
AstHandle ==
    <<Function("f", <<>>, <<>>),
      PrintStmt(Binary(Variable("f"), "PLUS", Literal(PyStr("a"))))>>

IRPrograms ==
    {generate(Sources[i], NewGenerator).code : i \in 1..Len(Sources)}
    \cup {generate(AstClock, NewGenerator).code, generate(AstHandle, NewGenerator).code}
    \cup {<<InsV("CONST", a), InsV("CONST", b), Ins(op), Ins("PRINT")>> :
             a \in Samples, b \in Samples, op \in BinaryOps}
    \cup {<<InsV("CONST", a), InsN(op, "L1"), InsV("CONST", PyFloat(1)), Ins("PRINT"),
            InsN("LABEL", "L1"), InsV("CONST", a), Ins("NOT"), Ins("PRINT")>> :
             a \in Samples, op \in {"JMP_FALSE", "JMP_TRUE"}}
    \cup {<<InsV("CONST", a), InsNK("CALL", "print", 1)>> : a \in Samples}
    \cup {<<InsV("CONST", a), Ins("NEG"), Ins("PRINT")>> : a \in Samples}
    \cup {<<InsV("CONST", a), InsN(op, "L9"), InsV("CONST", PyFloat(1)), Ins("PRINT")>> :
             a \in Samples, op \in {"JMP_FALSE", "JMP_TRUE"}}
    \cup {<<InsN("JMP", "L9"), InsV("CONST", PyFloat(1)), Ins("PRINT")>>,
          <<InsN("LOAD", "x"), Ins("PRINT")>>}
    \cup {<<Ins("HALT")>>}

\* The characters of the source texts that are enumerated exhaustively.
Alphabet == {"a", "1", ".", "\"", " ", "\n", "/", "=", "@", ";"}

\* The length up to which every text over Alphabet is a source.
MaxText == 3

\* print 1+2*3;
TextPrecedence ==
    <<"p", "r", "i", "n", "t", " ", "1", "+", "2", "*", "3", ";">>

\* let a; let b; a = b = 3; print a + b;
TextAssignBoth ==
    <<"l", "e", "t", " ", "a", ";", " ", "l", "e", "t", " ", "b", ";", " ",
      "a", " ", "=", " ", "b", " ", "=", " ", "3", ";", " ",
      "p", "r", "i", "n", "t", " ", "a", " ", "+", " ", "b", ";">>

\* print 1 +; print 2;
TextBadFirst ==
    <<"p", "r", "i", "n", "t", " ", "1", " ", "+", ";", " ",
      "p", "r", "i", "n", "t", " ", "2", ";">>

\* { let ; print 1; }
TextBadInBlock ==
    <<"{", " ", "l", "e", "t", " ", ";", " ", "p", "r", "i", "n", "t", " ", "1", ";", " ", "}">>

\* print "a
\* b"; print 2; #
TextLexErrors ==
    <<"p", "r", "i", "n", "t", " ", "\"", "a", "\n", "b", "\"", ";", " ",
      "p", "r", "i", "n", "t", " ", "2", ";", " ", "#">>

\* The forms of an operand named x: bare, negated, called, grouped.
OperandForms(x) ==
    {<<x>>, <<"-", x>>, <<"!", x>>, <<x, "(", ")">>, <<"-", x, "(", ")">>,
     <<"!", "-", x>>, <<"(", x, ")">>}

\* The binary operators and the assignment, as they are written.
BinaryTexts ==
    {<<"=">>, <<" ", "o", "r", " ">>, <<" ", "a", "n", "d", " ">>,
     <<"=", "=">>, <<"!", "=">>, <<"<">>, <<"<", "=">>, <<">">>, <<">", "=">>,
     <<"+">>, <<"-">>, <<"*">>, <<"/">>}

\* The name of the operand at each position of a chain.
OperandNames == <<"a", "b", "c", "d", "e", "f">>

\* The number of operands up to which every chain of operators is a source.
MaxOperands == 3

\* x1 op x2 op ... xn, for every choice of the operators.
RECURSIVE Chains(_)
Chains(n) ==
    IF n = 1 THEN {<<OperandNames[1]>>}
    ELSE {e \o op \o <<OperandNames[n]>> : e \in Chains(n - 1), op \in BinaryTexts}

\* Expression statements: the chains, and two operands of every form joined
\* by every operator.
ExprTexts ==
    {e \o <<";">> :
        e \in UNION {Chains(n) : n \in 1..MaxOperands}
              \cup OperandForms("a")
              \cup {f \o op \o g : f \in OperandForms("a"), op \in BinaryTexts,
                                    g \in OperandForms("b")}}

\* function g() { print 3; } function f() { function g() { print 1; } g(); print 2; } print 0; f(); g();
TextNested ==
    <<"f", "u", "n", "c", "t", "i", "o", "n", " ", "g", "(", ")", " ", "{",
      " ", "p", "r", "i", "n", "t", " ", "3", ";", " ", "}", " ", "f", "u",
      "n", "c", "t", "i", "o", "n", " ", "f", "(", ")", " ", "{", " ", "f",
      "u", "n", "c", "t", "i", "o", "n", " ", "g", "(", ")", " ", "{", " ",
      "p", "r", "i", "n", "t", " ", "1", ";", " ", "}", " ", "g", "(", ")",
      ";", " ", "p", "r", "i", "n", "t", " ", "2", ";", " ", "}", " ", "p",
      "r", "i", "n", "t", " ", "0", ";", " ", "f", "(", ")", ";", " ", "g",
      "(", ")", ";">>

\* ) { ( if else ; } for ( while function , 1 let = return { a
TextGarbage ==
    <<")", " ", "{", " ", "(", " ", "i", "f", " ", "e", "l", "s", "e", " ",
      ";", " ", "}", " ", "f", "o", "r", " ", "(", " ", "w", "h", "i", "l",
      "e", " ", "f", "u", "n", "c", "t", "i", "o", "n", " ", ",", " ", "1",
      " ", "l", "e", "t", " ", "=", " ", "r", "e", "t", "u", "r", "n", " ",
      "{", " ", "a">>

\* The clauses and the bodies of the for statements that are sources: an
\* initializer with its semicolon, a condition, an increment, a body.
ForInitializers == {<<"l", "e", "t", " ", "i", "=", "0", ";">>, <<"i", "=", "0", ";">>}

ForConditions == {<<"i", "<", "2">>}

ForIncrements == {<<"i", "=", "i", "+", "1">>, <<"i", "=", "2">>}

ForBodies == {<<"p", "r", "i", "n", "t", " ", "i", ";">>,
              <<"{", "p", "r", "i", "n", "t", " ", "i", ";", "}">>}

\* The body of the for statements without a condition: a call of a
\* function that is not declared, which the analyzer rejects.
ForBodiesRejected == {<<"f", "(", ")", ";">>}

\* for (initializer condition; increment) body
ForText(initializer, condition, increment, body) ==
    <<"f", "o", "r", " ", "(">> \o initializer \o condition \o <<";">> \o increment \o <<")">>
        \o body

ForTexts ==
    {ForText(i, c, n, b) : i \in ForInitializers, c \in ForConditions,
                           n \in ForIncrements, b \in ForBodies}
    \cup {ForText(i, <<>>, n, b) : i \in ForInitializers, n \in ForIncrements,
                                   b \in ForBodiesRejected}

\* let a = 1; 1 = a = 2; print a; a + 1 = 4;
TextBadTargets ==
    <<"l", "e", "t", " ", "a", " ", "=", " ", "1", ";", " ", "1", " ", "=",
      " ", "a", " ", "=", " ", "2", ";", " ", "p", "r", "i", "n", "t", " ",
      "a", ";", " ", "a", " ", "+", " ", "1", " ", "=", " ", "4", ";">>

\* function g(x, y) { return 5; } print 10 + g(1); function g(x) { return x; }
TextTooFew ==
    <<"f", "u", "n", "c", "t", "i", "o", "n", " ", "g", "(", "x", ",", " ",
      "y", ")", " ", "{", " ", "r", "e", "t", "u", "r", "n", " ", "5", ";",
      " ", "}", " ", "p", "r", "i", "n", "t", " ", "1", "0", " ", "+", " ",
      "g", "(", "1", ")", ";", " ", "f", "u", "n", "c", "t", "i", "o", "n",
      " ", "g", "(", "x", ")", " ", "{", " ", "r", "e", "t", "u", "r", "n",
      " ", "x", ";", " ", "}">>

\* function f() { } let f = "L3"; f(); print 7; if (true) print 0;
TextFakeHandle ==
    <<"f", "u", "n", "c", "t", "i", "o", "n", " ", "f", "(", ")", " ", "{",
      " ", "}", " ", "l", "e", "t", " ", "f", " ", "=", " ", "\"", "L", "3",
      "\"", ";", " ", "f", "(", ")", ";", " ", "p", "r", "i", "n", "t", " ",
      "7", ";", " ", "i", "f", " ", "(", "t", "r", "u", "e", ")", " ", "p",
      "r", "i", "n", "t", " ", "0", ";">>

Texts ==
    UNION {[1..n -> Alphabet] : n \in 0..MaxText}
    \cup {TextPrecedence, TextAssignBoth, TextBadFirst, TextBadInBlock, TextLexErrors,
          TextNested,
          TextGarbage,
          TextBadTargets,
          TextTooFew,
          TextFakeHandle}
    \cup ExprTexts
    \cup ForTexts

\* The statement lists one generator and one machine are given in turn.
Rounds ==
    {<<i>> : i \in 1..Len(Sources)}
    \cup {<<i, j>> : i \in 1..Len(Sources), j \in 1..Len(Sources)}

-----------------------------------------------------------------------------
(* The driver (main.py) *)

Init ==
    /\ \/ mode = "prompt" /\ input \in Sessions
       \/ mode = "file" /\ input \in {<<i>> : i \in 1..Len(Sources)}
       \/ mode = "vm" /\ input \in IRPrograms
       \/ mode = "usage" /\ input = <<>>
       \/ mode = "text" /\ input \in Texts
       \/ mode = "reuse" /\ input \in Rounds
    /\ label_counter = NewGenerator.n
    /\ toks = <<>>
    /\ start = 0
    /\ current = 0
    /\ parsed = <<>>
    /\ pos = 0
    /\ pc = "start"
    /\ prompts = 0
    /\ out = <<>>
    /\ exitStatus = 0
    /\ instructions = <<>>
    /\ ip = 0
    /\ stack = <<>>
    /\ globals = EmptyMap
    /\ labels = [x \in {} |-> 0]
    /\ call_stack = <<>>
    /\ exc = NoExc

\* main: more than one argument, one argument, no argument
Main ==
    /\ pc = "start"
    /\ mode \in {"usage", "file", "prompt"}
    /\ IF mode = "usage"
       THEN /\ out' = Append(out, Diagnostic("usage", "Usage: main.py [script]"))
            /\ exitStatus' = 64
            /\ pc' = "exited"
            /\ pos' = pos
       ELSE IF mode = "file"
       THEN pc' = "run" /\ pos' = 1 /\ UNCHANGED <<out, exitStatus>>
       ELSE pc' = "prompt" /\ UNCHANGED <<out, exitStatus, pos>>
    /\ UNCHANGED <<mode, input, prompts, vmVars, exc, frontVars>>

\* run_prompt: line = input("> "), then break or run(line)
ReadLine ==
    /\ pc = "prompt"
    /\ exc = NoExc
    /\ prompts < MaxPrompts
    /\ prompts' = prompts + 1
    /\ IF pos >= Len(input)
       THEN /\ exc' = Exc("EOFError", "EOF when reading a line")
            /\ UNCHANGED <<pc, pos>>
       ELSE /\ pos' = pos + 1
            /\ exc' = exc
            /\ pc' = IF input[pos + 1] \in {Interrupt, EmptyLine} THEN "exited" ELSE "run"
    /\ UNCHANGED <<mode, input, out, exitStatus, vmVars, frontVars>>

\* Where run() returns to: the loop of run_prompt, or run_file and main.
AfterRun == IF mode = "prompt" THEN "prompt" ELSE "exited"

\* What the lexer and the parser print
Diagnostics(kind, msgs) == [i \in 1..Len(msgs) |-> Diagnostic(kind, msgs[i])]

\* run(source): lexer = Lexer(source)
LexerInit ==
    /\ pc = "start"
    /\ mode = "text"
    /\ pc' = "lex"
    /\ toks' = NewLexer.tokens
    /\ start' = NewLexer.start
    /\ current' = NewLexer.current
    /\ UNCHANGED <<mode, input, pos, prompts, exitStatus, parsed, label_counter,
                   out, vmVars, exc>>

\* One turn of the loop of scan_tokens: start = current, then scan_token()
ScanToken ==
    /\ pc = "lex"
    /\ current < Len(input)
    /\ LET lx == scan_token(input, [tokens |-> toks, start |-> current,
                                    current |-> current, msgs |-> <<>>])
       IN  /\ toks' = lx.tokens
           /\ start' = lx.start
           /\ current' = lx.current
           /\ out' = out \o Diagnostics("lex", lx.msgs)
    /\ UNCHANGED <<mode, input, pos, prompts, exitStatus, parsed, label_counter,
                   pc, vmVars, exc>>

\* The loop of scan_tokens ends: the EOF token is appended; parser = Parser(tokens)
ScanEnd ==
    /\ pc = "lex"
    /\ current >= Len(input)
    /\ toks' = Append(toks, EofToken)
    /\ pc' = "parse"
    /\ UNCHANGED <<mode, input, pos, prompts, exitStatus, parsed, start, current,
                   label_counter, out, vmVars, exc>>

\* statements = parser.parse()
Parse ==
    /\ pc = "parse"
    /\ LET r == parse(toks)
       IN  /\ parsed' = r.node
           /\ out' = out \o Diagnostics("parse", r.msgs)
    /\ pc' = "run"
    /\ UNCHANGED <<mode, input, pos, prompts, exitStatus, toks, start, current,
                   label_counter, vmVars, exc>>

\* run(source), up to vm.load_instructions: a new VM holds the instructions.
RunSource ==
    /\ pc = "run"
    /\ exc = NoExc
    /\ LET stmts == IF mode = "text" THEN parsed
                    ELSE Sources[input[pos]]
           verdict == analyze(stmts)
           g == generate(stmts, NewGenerator)
       IN  IF stmts = <<>>
           THEN pc' = AfterRun /\ UNCHANGED <<out, exc, vmVars>>
           ELSE IF verdict = "!sem"
           THEN /\ out' = Append(out, Diagnostic("semantic", "Semantic Error"))
                /\ pc' = AfterRun
                /\ UNCHANGED <<exc, vmVars>>
           ELSE IF verdict = "!attr"
           THEN /\ exc' = Exc("AttributeError", "object has no attribute 'line'")
                /\ UNCHANGED <<pc, out, vmVars>>
           ELSE IF g.err # ""
           THEN exc' = RuntimeError(g.err) /\ UNCHANGED <<pc, out, vmVars>>
           ELSE /\ pc' = "vm"
                /\ instructions' = g.code
                /\ ip' = 0
                /\ stack' = <<>>
                /\ globals' = EmptyMap
                /\ call_stack' = <<>>
                /\ labels' = LoadLabels([x \in {} |-> 0], g.code)
                /\ UNCHANGED <<out, exc>>
    /\ UNCHANGED driverVars

\* load_instructions on a VM, called directly with an IR program.
LoadInstructions ==
    /\ pc = "start"
    /\ mode = "vm"
    /\ pc' = "vm"
    /\ instructions' = input
    /\ ip' = 0
    /\ stack' = <<>>
    /\ globals' = EmptyMap
    /\ call_stack' = <<>>
    /\ labels' = LoadLabels(labels, input)
    /\ UNCHANGED <<driverVars, out, exc>>

\* generate and load_instructions on the generator and the machine that
\* lowered and ran the lists before.
Reload ==
    /\ mode = "reuse"
    /\ pc \in {"start", "exited"}
    /\ exc = NoExc
    /\ pos < Len(input)
    /\ pos' = pos + 1
    /\ LET g == generate(Sources[input[pos + 1]],
                         [NewGenerator EXCEPT !.n = label_counter])
       IN  /\ label_counter' = g.n
           /\ IF g.err # ""
              THEN exc' = RuntimeError(g.err) /\ UNCHANGED <<pc, vmVars>>
              ELSE /\ pc' = "vm"
                   /\ instructions' = g.code
                   /\ ip' = 0
                   /\ stack' = <<>>
                   /\ globals' = EmptyMap
                   /\ call_stack' = <<>>
                   /\ labels' = LoadLabels(labels, g.code)
                   /\ exc' = exc
    /\ UNCHANGED <<mode, input, prompts, exitStatus, toks, start, current, parsed, out>>

\* VirtualMachine.run ends: ip has reached the end of the instructions.
RunReturns ==
    /\ pc = "vm"
    /\ exc = NoExc
    /\ ip >= Len(instructions)
    /\ pc' = AfterRun
    /\ UNCHANGED <<driverVars, out, vmVars, exc>>

\* An exception propagates: run_prompt catches it, prints it and goes on;
\* nothing else catches it.
Propagate ==
    /\ exc # NoExc
    /\ pc \notin {"crashed", "raised"}
    /\ IF mode = "prompt"
       THEN /\ out' = Append(out, Diagnostic("error", "Error: " \o exc.msg))
            /\ exc' = NoExc
            /\ pc' = "prompt"
            /\ exitStatus' = exitStatus
       ELSE IF mode = "file"
       THEN pc' = "crashed" /\ exitStatus' = 1 /\ UNCHANGED <<out, exc>>
       ELSE pc' = "raised" /\ UNCHANGED <<out, exc, exitStatus>>
    /\ UNCHANGED <<mode, input, pos, prompts, vmVars, frontVars>>

Next ==
    \/ Main
    \/ ReadLine
    \/ RunSource
    \/ LoadInstructions
    \/ Reload
    \/ LexerInit
    \/ ScanToken
    \/ ScanEnd
    \/ Parse
    \/ RunReturns
    \/ Propagate
    \/ ExecConst
    \/ ExecPop
    \/ ExecDup
    \/ ExecLoad
    \/ ExecStore
    \/ ExecBinary
    \/ ExecNeg
    \/ ExecNot
    \/ ExecJmp
    \/ ExecJmpIf
    \/ ExecCall
    \/ ExecReturn
    \/ ExecPrint
    \/ ExecLabel
    \/ ExecParam
    \/ ExecUnknown

Spec == Init /\ [][Next]_vars

-----------------------------------------------------------------------------
(* What the claims speak of *)

\* The language's truthiness rule: nil and false are falsy, all else truthy.
Falsy(v) == v.t = "nil" \/ (v.t = "bool" /\ v.n = 0)

\* The instruction that has just been fetched when ip > 0 and no jump was taken.
Prev == instructions[ip]

\* A function handle: the label string of a LABEL that a FUNC follows.
IsFunctionHandle(v) ==
    /\ v.t = "str"
    /\ v.s \in DOMAIN labels
    /\ labels[v.s] + 2 <= Len(instructions)
    /\ instructions[labels[v.s] + 2].op = "FUNC"

\* The parameter count the FUNC marker of a function handle declares.
ArityOf(v) == instructions[labels[v.s] + 2].k

\* The source program being run in file mode and in interactive mode.
CurrentSource == Sources[input[pos]]

InPipeline == mode \in {"file", "prompt"} /\ pc = "vm"

\* C1: JMP_FALSE, JMP_TRUE and NOT treat exactly nil and false as falsy: a
\* JMP_FALSE to a known label is taken exactly when the popped value is nil
\* or false, a JMP_TRUE exactly when it is neither, and NOT pushes true
\* exactly for nil and false; the number 0 and the empty string are truthy.
C1_FalsyIsExactlyNilAndFalse ==
    [][/\ (At({"JMP_FALSE", "JMP_TRUE"}) /\ stack # <<>> /\ Cur.name \in DOMAIN labels)
            => LET falsy == Falsy(Top(stack))
                   taken == IF Cur.op = "JMP_FALSE" THEN falsy ELSE ~falsy
               IN  ip' = (IF taken THEN labels[Cur.name] ELSE ip + 1)
       /\ (At({"NOT"}) /\ stack # <<>>)
            => stack' = Append(Pop(stack), PyBool(Falsy(Top(stack))))]_vars

\* C2: every frame pushed by a CALL holds the name table as it is at that
\* CALL and the frames below it stay as they are; a RETURN with a non-empty
\* call stack pops exactly the top frame, rebinds every name of that frame's
\* table to the value it had at the CALL, and keeps every name created during
\* the call that the table did not hold, with its current value.
C2_ReturnRestoresCallerNames ==
    [][/\ (pc = "vm" /\ pc' = "vm" /\ Len(call_stack') > Len(call_stack))
            => /\ call_stack' = Append(call_stack, Top(call_stack'))
               /\ Top(call_stack').globals = globals
               /\ globals' = globals
       /\ (pc = "vm" /\ pc' = "vm" /\ Len(call_stack') <= Len(call_stack))
            => call_stack' \in {call_stack, Pop(call_stack)}
       /\ (At({"RETURN"}) /\ stack # <<>> /\ call_stack # <<>>)
            => LET atCall == Top(call_stack).globals
               IN  /\ call_stack' = Pop(call_stack)
                   /\ DOMAIN globals' = DOMAIN atCall \cup DOMAIN globals
                   /\ \A n \in DOMAIN atCall : globals'[n] = atCall[n]
                   /\ \A n \in DOMAIN globals \ DOMAIN atCall : globals'[n] = globals[n]]_vars

\* A call has returned to the top level: x, which the callee had set to 2, is
\* 1 again, and y, which the callee created, is still bound.
C2_Witness ==
    /\ pc = "vm"
    /\ exc = NoExc
    /\ call_stack = <<>>
    /\ {"x", "y"} \subseteq DOMAIN globals
    /\ globals["x"] = PyFloat(1)
    /\ globals["y"] = PyFloat(3)

\* The call expressions of a syntax tree, in source order.
RECURSIVE CallsIn(_), CallsInAll(_)

CallsIn(node) ==
    CASE node.k = "Call" -> <<node>> \o CallsIn(node.callee) \o CallsInAll(node.arguments)
      [] node.k = "Grouping" -> CallsIn(node.expression)
      [] node.k = "Unary" -> CallsIn(node.right)
      [] node.k \in {"Binary", "Logical"} -> CallsIn(node.left) \o CallsIn(node.right)
      [] node.k = "Assignment" -> CallsIn(node.value)
      [] node.k \in {"Expression", "Print"} -> CallsIn(node.expression)
      [] node.k = "Var" -> CallsIn(node.initializer)
      [] node.k = "Block" -> CallsInAll(node.statements)
      [] node.k = "If" ->
            CallsIn(node.condition) \o CallsIn(node.then_branch) \o CallsIn(node.else_branch)
      [] node.k = "While" -> CallsIn(node.condition) \o CallsIn(node.body)
      [] node.k = "Function" -> CallsInAll(node.body)
      [] node.k = "Return" -> CallsIn(node.value)
      [] OTHER -> <<>>

CallsInAll(nodes) ==
    IF nodes = <<>> THEN <<>> ELSE CallsIn(Head(nodes)) \o CallsInAll(Tail(nodes))

\* An expression whose evaluation reads names and changes nothing.
RECURSIVE IsPure(_)

IsPure(e) ==
    CASE e.k \in {"Literal", "Variable"} -> TRUE
      [] e.k = "Grouping" -> IsPure(e.expression)
      [] e.k = "Binary" -> IsPure(e.left) /\ IsPure(e.right)
      [] OTHER -> FALSE

\* The value of a pure expression under a name table.
RECURSIVE ValueOf(_, _)

ValueOf(e, names) ==
    CASE e.k = "Literal" -> e.value
      [] e.k = "Variable" ->
            IF e.name \in DOMAIN names THEN names[e.name] ELSE Raised(RuntimeError(e.name))
      [] e.k = "Grouping" -> ValueOf(e.expression, names)
      [] e.k = "Binary" ->
            LET a == ValueOf(e.left, names)
                b == ValueOf(e.right, names)
            IN  IF IsRaised(a) THEN a ELSE IF IsRaised(b) THEN b
                ELSE PyBinary(BinaryOpcode(e.operator), a, b)

\* The step that executes the last PARAM of a function's parameter list.
LastParam ==
    /\ At({"PARAM"})
    /\ call_stack # <<>>
    /\ (ip + 2 <= Len(instructions) => instructions[ip + 2].op # "PARAM")

\* The position of the FUNC marker the PARAM being executed belongs to.
FuncIndex ==
    CHOOSE i \in 1..(ip + 1) :
        /\ instructions[i].op = "FUNC"
        /\ \A m \in (i + 1)..(ip + 1) : instructions[m].op = "PARAM"

\* The parameter names p1..pk of the function being entered.
Params == [m \in 1..(ip + 1 - FuncIndex) |-> instructions[FuncIndex + m].name]

\* The CALL instruction that pushed the top frame.
CallIns == instructions[Top(call_stack).ip]

\* The call expressions of the source that name the function being called
\* with as many arguments as it has parameters.
Sites ==
    SelectSeq(CallsIn(Block(CurrentSource)),
              LAMBDA c : /\ c.callee.k = "Variable"
                         /\ c.callee.name = CallIns.name
                         /\ Len(c.arguments) = Len(Params))

\* Parameter pi is the last of the parameter list to bear its name.
LastOfItsName(i) == \A j \in (i + 1)..Len(Params) : Params[j] # Params[i]

\* After the step, parameter pi holds the value of argument ai of call c:
\* for every i, or for every i that is the last to bear its name.
BoundInOrder(c, lastOnly) ==
    \A i \in 1..Len(Params) :
        (lastOnly => LastOfItsName(i))
          => /\ Params[i] \in DOMAIN globals'
             /\ globals'[Params[i]] = ValueOf(c.arguments[i], Top(call_stack).globals)

ParamsBound(lastOnly) ==
    /\ ( /\ InPipeline
         /\ LastParam
         /\ CallIns.k = Len(Params)
         /\ Sites # <<>>
         /\ \A j \in 1..Len(Sites) : \A i \in 1..Len(Params) : IsPure(Sites[j].arguments[i]) )
          => \E j \in 1..Len(Sites) : BoundInOrder(Sites[j], lastOnly)
    /\ (InPipeline /\ CurrentSource = SrcSub /\ At({"PRINT"}) /\ stack # <<>>)
          => Top(stack) = PyFloat(7)

\* C3: for a call f(a1, ..., ak) of a function with k parameters, once the
\* last PARAM of f has executed, each parameter pi whose name no later
\* parameter repeats is bound to the value of argument ai, so every pi is when
\* the names are pairwise distinct; f(10, 3) with the body "return a - b"
\* hands 7 to the print statement.
C3_ParamsBoundInOrder == [][ParamsBound(TRUE)]_vars

\* C3 as the specification states it: the same for every parameter list, also
\* one that repeats a name.
C3_ParamsBoundInOrderAnyNames == [][ParamsBound(FALSE)]_vars

\* f(10, 3) has been entered and its last PARAM has executed: a is 10, b is 3.
C3_Witness ==
    /\ InPipeline
    /\ CurrentSource = SrcSub
    /\ call_stack # <<>>
    /\ ip >= 1
    /\ Prev.op = "PARAM"
    /\ {"a", "b"} \subseteq DOMAIN globals
    /\ globals["a"] = PyFloat(10)
    /\ globals["b"] = PyFloat(3)

\* C4: in a run of a source, a call whose argument count differs from the
\* parameter count of the function its name is bound to never gets as far as
\* printing its value: no PRINT that directly follows such a CALL executes.
C4_ArityMismatchNeverPrints ==
    ~( /\ InPipeline
       /\ exc = NoExc
       /\ ip >= 2
       /\ Prev.op = "PRINT"
       /\ instructions[ip - 1].op = "CALL"
       /\ LET callIns == instructions[ip - 1]
          IN  /\ callIns.name \in DOMAIN globals
              /\ IsFunctionHandle(globals[callIns.name])
              /\ ArityOf(globals[callIns.name]) # callIns.k
       /\ out # <<>>
       /\ Top(out).ch = "print" )

\* C5: "a or b" evaluates b only when a is falsy, "a and b" only when a is
\* truthy, under the rule that nil and false alone are falsy: the POP that
\* starts b's code after DUP, JMP_TRUE is reached only with a falsy value of a
\* on the stack, and after DUP, JMP_FALSE only with a truthy one.
C5_ShortCircuit ==
    ( /\ pc = "vm"
      /\ exc = NoExc
      /\ ip >= 2
      /\ ip < Len(instructions)
      /\ Cur.op = "POP"
      /\ Prev.op \in {"JMP_TRUE", "JMP_FALSE"}
      /\ instructions[ip - 1].op = "DUP"
      /\ stack # <<>> )
        => (Falsy(Top(stack)) <=> Prev.op = "JMP_TRUE")

\* C6: in interactive mode the names a line binds are still bound, to the same
\* values, when the virtual machine starts executing the next line.
C6_NamesPersistAcrossLines ==
    [][(mode = "prompt" /\ pc = "run" /\ pc' = "vm")
          => \A n \in DOMAIN globals : n \in DOMAIN globals' /\ globals'[n] = globals[n]]_vars

\* C7: the prompt loop stops when the input stream ends: the end of the stream
\* is read at most once, so there is never more than one prompt more than
\* there are lines.
C7_PromptLoopStopsAtEndOfStream ==
    mode = "prompt" => prompts <= Len(input) + 1

\* C8: in batch mode a runtime error raised by the virtual machine leaves
\* run_file returning normally and the process exiting with status 0.
C8_BatchRuntimeErrorExitsZero ==
    (mode = "file" /\ instructions # <<>>) => (pc # "crashed" /\ exitStatus = 0)

\* C9: CALL on a built-in name works without any user definition of that
\* name: CALL print 1 prints the top value, pops it and pushes nil; CALL clock 0
\* pushes a number; neither raises, and the stack ends as the stack before the
\* arguments plus exactly one result.
C9_BuiltinsNeedNoDefinition ==
    [][/\ ( /\ At({"CALL"}) /\ Cur.name = "print" /\ Cur.k = 1
             /\ "print" \notin DOMAIN globals /\ stack # <<>> )
            => /\ exc' = NoExc
               /\ out' = Append(out, Printed(Top(stack)))
               /\ stack' = Append(Pop(stack), Nil)
       /\ ( /\ At({"CALL"}) /\ Cur.name = "clock" /\ Cur.k = 0
             /\ "clock" \notin DOMAIN globals )
            => /\ exc' = NoExc
               /\ Len(stack') = Len(stack) + 1
               /\ Top(stack').t \in {"int", "float"}
               /\ Pop(stack') = stack]_vars

\* C10: ADD pushes the sum of two numbers and the concatenation of two
\* strings; for every other pair of operand types (a boolean, nil or a
\* function handle with anything, a number with a string) it fails and pushes
\* nothing.
C10_AddTypes ==
    [][(At({"ADD"}) /\ Len(stack) >= 2)
          => LET b == Top(stack)
                 a == Top(Pop(stack))
                 rest == Pop(Pop(stack))
             IN  IF IsNumeric(a) /\ IsNumeric(b) /\ {a.t, b.t} \subseteq {"int", "float"}
                 THEN exc' = NoExc /\ stack' = Append(rest, Number(NumType(a, b), a.n + b.n))
                 ELSE IF /\ a.t = "str" /\ b.t = "str"
                         /\ ~IsFunctionHandle(a) /\ ~IsFunctionHandle(b)
                 THEN exc' = NoExc /\ stack' = Append(rest, PyStr(a.s \o b.s))
                 ELSE exc' # NoExc /\ stack' = rest]_vars

\* A value the language counts as a number.
IsNumber(v) == v.t \in {"int", "float"}

\* C11: GREATER, GREATER_EQUAL, LESS, LESS_EQUAL, SUB, MUL, DIV and NEG raise
\* and push nothing whenever an operand is not a number (a string, a boolean,
\* nil or a function handle).
C11_NumericOperandsOnly ==
    [][/\ ( /\ At({"GREATER", "GREATER_EQUAL", "LESS", "LESS_EQUAL", "SUB", "MUL", "DIV"})
            /\ Len(stack) >= 2
            /\ ~(IsNumber(Top(stack)) /\ IsNumber(Top(Pop(stack)))) )
            => exc' # NoExc /\ stack' = Pop(Pop(stack))
       /\ (At({"NEG"}) /\ stack # <<>> /\ ~IsNumber(Top(stack)))
            => exc' # NoExc /\ stack' = Pop(stack)]_vars

\* The language's type tag of a value: int and float are both numbers.
Tag(v) == IF IsNumber(v) THEN "number" ELSE v.t

\* Equality by tag, then payload.
TagEq(a, b) == Tag(a) = Tag(b) /\ a.n = b.n /\ a.s = b.s

\* C12: EQUAL pushes true exactly when both operands have the same type tag
\* and the same payload (nil equals nil alone; true is not 1, false is not 0),
\* and NOT_EQUAL pushes the negation.
C12_EqualityByTagThenPayload ==
    [][(At({"EQUAL", "NOT_EQUAL"}) /\ Len(stack) >= 2)
          => LET b == Top(stack)
                 a == Top(Pop(stack))
                 eq == TagEq(a, b)
             IN  /\ exc' = NoExc
                 /\ stack' = Append(Pop(Pop(stack)),
                                    PyBool(IF Cur.op = "EQUAL" THEN eq ELSE ~eq))]_vars

\* C13: LOAD and CALL of an unbound name, and JMP, JMP_FALSE and JMP_TRUE to a
\* label that the label index lacks, raise a RuntimeError, whatever the
\* condition a conditional jump pops; once an exception is raised the
\* virtual machine executes nothing more: its state stays as it is and
\* control leaves it.
C13_ResolutionErrorsAreFatal ==
    [][/\ (At({"LOAD", "CALL"}) /\ Cur.name \notin DOMAIN globals)
            => exc'.type = "RuntimeError"
       /\ (At({"JMP"}) /\ Cur.name \notin DOMAIN labels)
            => exc'.type = "RuntimeError"
       /\ (At({"JMP_FALSE", "JMP_TRUE"}) /\ stack # <<>> /\ Cur.name \notin DOMAIN labels)
            => exc'.type = "RuntimeError"
       /\ (pc = "vm" /\ exc # NoExc)
            => pc' # "vm" /\ UNCHANGED vmVars]_vars

\* JMP_FALSE to a missing label has raised although the condition it popped,
\* true, would not have taken the branch.
C13_Witness ==
    /\ pc = "raised"
    /\ exc = RuntimeError("Unknown label: L9")
    /\ instructions[ip].op = "JMP_FALSE"
    /\ instructions[1] = InsV("CONST", PyBool(TRUE))
    /\ stack = <<>>
    /\ out = <<>>

\* run(source) has parsed its text: parsed holds what Parser.parse returned.
Parsed == mode = "text" /\ pc \notin {"start", "lex", "parse"}

\* A statement list holds a null entry, at the top or in a nested body.
RECURSIVE NullIn(_)
NullIn(stmts) ==
    \E i \in 1..Len(stmts) :
        LET s == stmts[i]
        IN  CASE s.k = "None" -> TRUE
              [] s.k = "Block" -> NullIn(s.statements)
              [] s.k = "Function" -> NullIn(s.body)
              [] s.k = "While" -> NullIn(<<s.body>>)
              [] s.k = "If" ->
                     \/ NullIn(<<s.then_branch>>)
                     \/ s.else_branch.k # "None" /\ NullIn(<<s.else_branch>>)
              [] OTHER -> FALSE

\* C14: after a parse error the failed declaration's null node is discarded:
\* the list Parser.parse returns, and the statement list of every block and
\* function body in it, holds no null entry, and the stages after the parser
\* never fail on a null node.
C14_NullNodesAreDiscarded ==
    Parsed =>
        /\ ~NullIn(parsed)
        /\ exc # RuntimeError("Unsupported statement type")

\* The rung of a binary operator or of the assignment on the precedence
\* ladder, the loosest first; 0 for any other token.
Rung(token_type) ==
    CASE token_type = "EQUAL" -> 1
      [] token_type = "OR" -> 2
      [] token_type = "AND" -> 3
      [] token_type \in {"BANG_EQUAL", "EQUAL_EQUAL"} -> 4
      [] token_type \in {"GREATER", "GREATER_EQUAL", "LESS", "LESS_EQUAL"} -> 5
      [] token_type \in {"MINUS", "PLUS"} -> 6
      [] token_type \in {"SLASH", "STAR"} -> 7
      [] OTHER -> 0

\* The parentheses open after the first i tokens.
Depth(ts, i) ==
    Cardinality({j \in 1..i : ts[j].type = "LEFT_PAREN"})
    - Cardinality({j \in 1..i : ts[j].type = "RIGHT_PAREN"})

\* A token that ends an operand, so that an operator after it is binary.
EndsOperand(token) ==
    token.type \in {"IDENTIFIER", "NUMBER", "STRING", "TRUE", "FALSE", "NIL", "RIGHT_PAREN"}

\* The positions of the binary operators outside every parenthesis.
BinaryAt(ts) ==
    {i \in 2..Len(ts) - 1 :
        Rung(ts[i].type) > 0 /\ Depth(ts, i) = 0 /\ EndsOperand(ts[i - 1])}

\* What stands where the ladder allows no tree.
Ungrouped == [k |-> "Ungrouped"]

\* The tree the precedence ladder prescribes for the tokens of an expression:
\* split at the loosest binary operator outside parentheses, at the last one
\* of its rung (the first one for the assignment); without one, a leading
\* unary operator takes all the rest; without that, a trailing argument list
\* is a call of what stands before it.
RECURSIVE Grouped(_)
Grouped(ts) ==
    LET ops == BinaryAt(ts)
        rung == CHOOSE r \in {Rung(ts[i].type) : i \in ops} :
                    \A i \in ops : r <= Rung(ts[i].type)
        loosest == {i \in ops : Rung(ts[i].type) = rung}
        split == IF rung = 1 THEN CHOOSE i \in loosest : \A j \in loosest : i <= j
                 ELSE CHOOSE i \in loosest : \A j \in loosest : i >= j
        lhs == Grouped(SubSeq(ts, 1, split - 1))
        rhs == Grouped(SubSeq(ts, split + 1, Len(ts)))
        open == CHOOSE i \in 1..Len(ts) :
                    /\ ts[i].type = "LEFT_PAREN"
                    /\ Depth(ts, i) = 1
                    /\ \A j \in i..Len(ts) - 1 : Depth(ts, j) >= 1
        inside == SubSeq(ts, open + 1, Len(ts) - 1)
    IN  IF ts = <<>> THEN Ungrouped
        ELSE IF ops # {}
        THEN IF rung = 1
             THEN IF lhs.k = "Variable" THEN Assignment(lhs.name, rhs) ELSE Ungrouped
             ELSE IF rung \in {2, 3} THEN Logical(lhs, ts[split].type, rhs)
             ELSE Binary(lhs, ts[split].type, rhs)
        ELSE IF ts[1].type \in {"BANG", "MINUS"}
        THEN Unary(ts[1].type, Grouped(Tail(ts)))
        ELSE IF Len(ts) = 1
        THEN CASE ts[1].type = "IDENTIFIER" -> Variable(Join(ts[1].lexeme))
               [] ts[1].type \in {"NUMBER", "STRING"} -> Literal(ts[1].literal)
               [] OTHER -> Ungrouped
        ELSE IF ts[Len(ts)].type # "RIGHT_PAREN" THEN Ungrouped
        ELSE IF open = 1 THEN Grouping(Grouped(inside))
        ELSE Call(Grouped(SubSeq(ts, 1, open - 1)),
                  IF inside = <<>> THEN <<>> ELSE <<Grouped(inside)>>)

\* The ladder allows the tree: no part of it is Ungrouped.
RECURSIVE WellGrouped(_)
WellGrouped(e) ==
    CASE e.k = "Ungrouped" -> FALSE
      [] e.k \in {"Binary", "Logical"} -> WellGrouped(e.left) /\ WellGrouped(e.right)
      [] e.k = "Unary" -> WellGrouped(e.right)
      [] e.k = "Grouping" -> WellGrouped(e.expression)
      [] e.k = "Assignment" -> WellGrouped(e.value)
      [] e.k = "Call" ->
             /\ WellGrouped(e.callee)
             /\ \A i \in 1..Len(e.arguments) : WellGrouped(e.arguments[i])
      [] OTHER -> TRUE

\* C15: the parser groups every expression as the precedence ladder
\* prescribes: factor tighter than term, then comparison, equality, and, or,
\* assignment; unary tighter than any binary operator and call tighter than
\* unary; binary operators of one rung to the left and assignment to the
\* right.  So print 1+2*3; prints 7 and a = b = 3 assigns 3 to both names.
C15_PrecedenceLadder ==
    /\ (Parsed /\ input \in ExprTexts) =>
           LET tree == Grouped(SubSeq(toks, 1, Len(toks) - 2))
           IN  WellGrouped(tree) =>
                   /\ parsed = <<Expression(tree)>>
                   /\ \A i \in 1..Len(out) : out[i].ch # "parse"
    /\ (Parsed /\ input = TextPrecedence) =>
           /\ parsed = <<PrintStmt(Grouped(SubSeq(toks, 2, Len(toks) - 2)))>>
           /\ pc = "exited" => out = <<Printed(PyFloat(7))>>
    /\ (Parsed /\ input = TextAssignBoth /\ pc = "exited") =>
           /\ globals["a"] = PyFloat(3)
           /\ globals["b"] = PyFloat(3)
           /\ out = <<Printed(PyFloat(6))>>

\* a+b*c; has been parsed with the product as the right operand of the sum.
C15_Witness ==
    /\ Parsed
    /\ input \in ExprTexts
    /\ parsed = <<Expression(Binary(Variable("a"), "PLUS",
                                    Binary(Variable("b"), "STAR", Variable("c"))))>>

\* The lexer has printed a diagnostic.
LexicalError == \E i \in 1..Len(out) : out[i].ch = "lex"

\* The tokens but the final one.
Front(ts) == SubSeq(ts, 1, Len(ts) - 1)

\* C16: scan_tokens terminates, every scan step consuming at least one
\* character and none reading past the end of the source, and what it returns
\* ends with the EOF token and holds no other EOF token, whether or not an
\* unexpected character or an unterminated string was reported; the steps
\* yield what scan_tokens yields as a whole.
C16_ScanTerminatesWithOneEof ==
    [][/\ (pc = "lex" /\ pc' = "lex") =>
              /\ current' > current
              /\ current' <= Len(input)
       /\ (pc = "lex" /\ pc' = "parse") =>
              /\ current = Len(input)
              /\ toks' # <<>>
              /\ toks'[Len(toks')].type = "EOF"
              /\ \A i \in 1..Len(toks') - 1 : toks'[i].type # "EOF"
              /\ toks' = scan_tokens(input, NewLexer).tokens]_vars

\* Scanning has ended after both kinds of lexical error were reported and
\* tokens were formed all the same.
C16_Witness ==
    /\ pc = "parse"
    /\ input \in {<<"@", "1", "\"">>, <<"\"", "\n", "@">>} \cup {TextLexErrors}
    /\ LexicalError
    /\ toks[Len(toks)].type = "EOF"

\* The lexemes of the tokens, one space between two tokens.
RECURSIVE Respaced(_)
Respaced(ts) ==
    IF ts = <<>> THEN <<>>
    ELSE IF Len(ts) = 1 THEN ts[1].lexeme
    ELSE ts[1].lexeme \o <<" ">> \o Respaced(Tail(ts))

\* C17: re-lexing the lexemes of a token sequence the lexer produced, joined
\* by single spaces, reports nothing and yields the same tokens: the same
\* types, lexemes and literals in the same order.
C17_RelexingLexemesRoundTrips ==
    (mode = "text" /\ pc \notin {"start", "lex"}) =>
        LET again == scan_tokens(Respaced(Front(toks)), NewLexer)
        IN  /\ again.tokens = toks
            /\ again.msgs = <<>>

\* Tokens that touched in the source, a string and a number with a fraction
\* among them, have been lexed.
C17_Witness ==
    /\ mode = "text"
    /\ pc = "parse"
    /\ Len(toks) >= 3
    /\ \A i \in 1..Len(input) : input[i] \notin {" ", "\n"}
    /\ \E i \in 1..Len(toks) :
           \/ toks[i].type = "STRING"
           \/ toks[i].type = "NUMBER" /\ toks[i].literal.s # ""

\* C18: a source in which the lexer reported an unexpected character or an
\* unterminated string is never lowered or executed: no instructions are
\* loaded for it and nothing of it is printed.
C18_LexicalErrorStopsThePipeline ==
    (mode = "text" /\ LexicalError) =>
        /\ pc # "vm"
        /\ instructions = <<>>
        /\ \A i \in 1..Len(out) : out[i].ch # "print"

\* The call expressions of the source that call a name with k arguments.
SitesOf(name, k) ==
    SelectSeq(CallsIn(Block(CurrentSource)),
              LAMBDA c : /\ c.callee.k = "Variable"
                         /\ c.callee.name = name
                         /\ Len(c.arguments) = k)

\* An argument that assigns a literal to a name.
AssignsLiteral(e) == e.k = "Assignment" /\ e.value.k = "Literal"

\* C19: the arguments of a call are evaluated from left to right: when the
\* CALL of a call whose arguments all assign literals to names executes, each
\* name holds the value that the rightmost argument assigning it gave it.
C19_ArgumentsLeftToRight ==
    ( /\ InPipeline
      /\ At({"CALL"})
      /\ SitesOf(Cur.name, Cur.k) # <<>>
      /\ \A j \in 1..Len(SitesOf(Cur.name, Cur.k)) :
            \A i \in 1..Cur.k : AssignsLiteral(SitesOf(Cur.name, Cur.k)[j].arguments[i]) )
      => \E j \in 1..Len(SitesOf(Cur.name, Cur.k)) :
            LET args == SitesOf(Cur.name, Cur.k)[j].arguments
            IN  \A i \in 1..Cur.k :
                   (\A m \in (i + 1)..Cur.k : args[m].name # args[i].name)
                     => /\ args[i].name \in DOMAIN globals
                        /\ globals[args[i].name] = args[i].value.value

\* The positions in the generated code where a top-level statement of the
\* source begins, and the position after the last one.
TopBoundaries(statements) ==
    {Len(generate(SubSeq(statements, 1, k), NewGenerator).code) : k \in 0..Len(statements)}

\* C20: the value stack is balanced across statement boundaries: whenever
\* execution stands at the beginning of a top-level statement, or after the
\* last one, with no call in progress, the stack is as deep as before the
\* first statement: empty.
C20_StackBalancedAcrossStatements ==
    ( /\ InPipeline
      /\ exc = NoExc
      /\ call_stack = <<>>
      /\ ip \in TopBoundaries(CurrentSource) )
      => stack = <<>>

-----------------------------------------------------------------------------
(* The lists generate returns, and the bodies of the functions in them *)

\* instructions is a list that generate returned and load_instructions loaded.
Lowered == mode \in {"file", "prompt", "text", "reuse"} /\ pc = "vm"

Positions == 1..Len(instructions)

\* The positions of the LABEL instructions that carry the label x.
LabelSites(x) == {i \in Positions : instructions[i].op = "LABEL" /\ instructions[i].name = x}

\* The positions of the CONST that visit_function_declaration emits for the
\* handle: the one between the end label that follows the closing RETURN
\* and the STORE of the function's name.
HandleSites ==
    {i \in Positions : /\ i >= 3 /\ i < Len(instructions)
                   /\ instructions[i].op = "CONST" /\ instructions[i].v.t = "str"
                   /\ instructions[i - 1].op = "LABEL"
                   /\ instructions[i - 2].op = "RETURN"
                   /\ instructions[i + 1].op = "STORE"}

JumpSites == {i \in Positions : instructions[i].op \in {"JMP", "JMP_FALSE", "JMP_TRUE"}}

\* C21: in every list generate returns, also when the same generator has
\* lowered another list before, the label of every JMP, JMP_FALSE and
\* JMP_TRUE and the label of every function-handle CONST is carried by
\* exactly one LABEL of that list.
C21_LabelsResolveOnce ==
    Lowered =>
        /\ \A i \in JumpSites : Cardinality(LabelSites(instructions[i].name)) = 1
        /\ \A i \in HandleSites : Cardinality(LabelSites(instructions[i].v.s)) = 1

\* The second list of a reused generator is loaded: it has jumps and a
\* handle, and its labels continue where the first list's ended.
C21_Witness ==
    /\ mode = "reuse" /\ pc = "vm" /\ pos = 2
    /\ JumpSites # {} /\ HandleSites # {}
    /\ LabelSites("L1") = {}
    /\ label_counter > Cardinality({i \in Positions : instructions[i].op = "LABEL"})

\* The positions of the start labels: a LABEL that the JMP over the body
\* precedes and the FUNC marker follows.
StartSites ==
    {i \in Positions : /\ i >= 2 /\ i < Len(instructions)
                       /\ instructions[i].op = "LABEL"
                       /\ instructions[i - 1].op = "JMP"
                       /\ instructions[i + 1].op = "FUNC"}

\* The position of the end label of the function that starts at s.
EndOf(s) == CHOOSE j \in LabelSites(instructions[s - 1].name) : TRUE

\* The positions of the body of the function that starts at s, from its
\* start label to the instruction before its end label.
BodyOf(s) == s..(EndOf(s) - 1)

\* The frame was pushed by a CALL that entered a declared function.
EnteredBody(frame) ==
    LET func_name == instructions[frame.ip].name
    IN  func_name \in DOMAIN frame.globals /\ IsFunctionHandle(frame.globals[func_name])

\* C22: in generated code a frame leaves the call stack only by a RETURN,
\* which pops exactly that frame; control leaves a function body only by
\* a RETURN or by a CALL out of it and never arrives at the function's end
\* label from inside the body; and when the run ends no frame of a call
\* that entered a function body is left.
C22_FramesPoppedByReturn ==
    /\ [](Lowered /\ exc = NoExc /\ ip >= Len(instructions)
            => \A k \in 1..Len(call_stack) : ~EnteredBody(call_stack[k]))
    /\ [][Lowered /\ Running /\ exc' = NoExc =>
            /\ Len(call_stack') < Len(call_stack) =>
                   Cur.op = "RETURN" /\ call_stack' = Pop(call_stack)
            /\ \A s \in StartSites :
                   (ip + 1) \in BodyOf(s) /\ (ip' + 1) \notin BodyOf(s) =>
                       Cur.op \in {"RETURN", "CALL"} /\ ip' + 1 # EndOf(s)]_vars

\* A call of a declared function has returned to the top level: the frame
\* is gone and the value is on the stack.
C22_Witness ==
    /\ Lowered /\ exc = NoExc /\ call_stack = <<>> /\ stack # <<>>
    /\ ip > 0 /\ Prev.op = "CALL"
    /\ Prev.name \in DOMAIN globals /\ IsFunctionHandle(globals[Prev.name])
    /\ \E s \in StartSites : \E i \in BodyOf(s) : instructions[i].op = "JMP_FALSE"

-----------------------------------------------------------------------------
(* The parser's progress *)

\* The lexer has returned the tokens and the parser has not been left yet.
TokensReady == mode = "text" /\ pc \in {"parse", "run"}

\* The index of the EOF token, as Parser.current counts.
EofIndex == Len(toks) - 1

\* A parser that stands at cursor position c.
ParserAt(c) == [NewParser EXCEPT !.cur = c]

\* C23: parse terminates on the tokens of every source.  From every
\* position before the EOF token a call of declaration returns with the
\* cursor at least one token further on and not past the EOF token, no
\* exception escaping it; and parse returns with the cursor on the EOF
\* token, holding one entry for every declaration it called.
C23_ParseTerminates ==
    TokensReady =>
        /\ toks[Len(toks)].type = "EOF"
        /\ \A c \in 0..(EofIndex - 1) :
               LET d == declaration(toks, ParserAt(c))
               IN  ~d.err /\ d.cur > c /\ d.cur <= EofIndex
        /\ LET r == parse(toks)
           IN  ~r.err /\ r.cur = EofIndex /\ Len(r.node) <= EofIndex

\* parse has returned for a source in which a declaration raised and
\* synchronize skipped more than the token the error was at.
C23_Witness ==
    /\ TokensReady /\ pc = "run"
    /\ NullIn(parsed)
    /\ EofIndex > 10
    /\ \E c \in 0..(EofIndex - 1) :
           LET d == declaration(toks, ParserAt(c))
           IN  d.node = PyNone /\ d.cur > c + 2

-----------------------------------------------------------------------------
(* The for statement *)

\* The statement that the text of one statement is parsed to.
StatementOf(text) == parse(scan_tokens(text, NewLexer).tokens).node[1]

\* The expression that the text of one expression is parsed to.
ExpressionOf(text) == StatementOf(text \o <<";">>).expression

\* for (let i=0;i<2;i=i+1) print i;
ForCounting ==
    ForText(<<"l", "e", "t", " ", "i", "=", "0", ";">>, <<"i", "<", "2">>,
            <<"i", "=", "i", "+", "1">>, <<"p", "r", "i", "n", "t", " ", "i", ";">>)

\* C24: a for statement with an initializer and an increment is parsed to
\* Block([initializer, While(condition, Block([body, Expression(increment)]))]),
\* each part being what the part's own text is parsed to and a missing
\* condition being Literal(true); and for (let i=0;i<2;i=i+1) print i;
\* prints 0 and 1 and leaves i at 2: the initializer runs once, the
\* condition is tested before every iteration, the increment runs after
\* the body.
C24_ForIsDesugared ==
    /\ Parsed =>
           \A i \in ForInitializers, c \in ForConditions \cup {<<>>},
              n \in ForIncrements, b \in ForBodies \cup ForBodiesRejected :
               input = ForText(i, c, n, b) =>
                   parsed = <<Block(<<StatementOf(i),
                                      While(IF c = <<>> THEN Literal(PyBool(TRUE))
                                            ELSE ExpressionOf(c),
                                            Block(<<StatementOf(b),
                                                    Expression(ExpressionOf(n))>>))>>)>>
    /\ mode = "text" /\ input = ForCounting /\ pc = "exited" =>
           /\ out = <<Printed(PyFloat(0)), Printed(PyFloat(1))>>
           /\ globals = Bind(EmptyMap, "i", PyFloat(2))

\* The counting loop has run to its end.
C24_Witness ==
    /\ mode = "text" /\ input = ForCounting /\ pc = "exited"
    /\ Len(out) = 2
    /\ parsed[1].k = "Block" /\ parsed[1].statements[2].k = "While"

\* A for statement without a condition has been parsed.
C24_WitnessNoCondition ==
    /\ Parsed
    /\ \E i \in ForInitializers, n \in ForIncrements, b \in ForBodiesRejected :
           input = ForText(i, <<>>, n, b)
    /\ parsed[1].statements[2].condition = Literal(PyBool(TRUE))

-----------------------------------------------------------------------------
(* Assignment targets *)

InvalidTarget == Diagnostic("parse", "Error at '=': Invalid assignment target.")

\* C25: an assignment whose left-hand side is not a plain variable makes
\* the parser print "Invalid assignment target" once and nothing else; the
\* statement is kept and its expression is the left-hand side alone, the
\* right-hand side being parsed and discarded; the statements that follow
\* are parsed as they stand.
C25_InvalidTargetYieldsLeftSide ==
    /\ Parsed =>
           \A f \in OperandForms("a") \ {<<"a">>}, g \in OperandForms("b") :
               input = f \o <<"=">> \o g \o <<";">> =>
                   /\ parsed = <<Expression(ExpressionOf(f))>>
                   /\ Len(out) >= 1 /\ out[1] = InvalidTarget
                   /\ \A i \in 2..Len(out) : out[i].ch # "parse"
    /\ Parsed /\ input = TextBadTargets =>
           /\ parsed = <<Var("a", Num(1)),
                         Expression(Num(1)),
                         PrintStmt(Variable("a")),
                         Expression(Binary(Variable("a"), "PLUS", Num(1)))>>
           /\ Len(out) >= 2 /\ out[1] = InvalidTarget /\ out[2] = InvalidTarget
           /\ \A i \in 3..Len(out) : out[i].ch # "parse"

\* The source with two invalid targets, one of them with an assignment as
\* its right-hand side, has been parsed, lowered and run.
C25_Witness ==
    /\ Parsed /\ input = TextBadTargets /\ pc = "exited"
    /\ out = <<InvalidTarget, InvalidTarget, Printed(PyFloat(1))>>

-----------------------------------------------------------------------------
(* Loading *)

\* C26: when load_instructions returns, on a new machine or on one that
\* held a list before, ip is 0, the stack, the globals and the call stack
\* are empty, and the label index holds the labels of the list loaded and
\* no other.
C26_LoadResetsTheMachine ==
    [][pc # "vm" /\ pc' = "vm" =>
          /\ ip' = 0 /\ stack' = <<>> /\ globals' = EmptyMap /\ call_stack' = <<>>
          /\ labels' = LoadLabels([x \in {} |-> 0], instructions')]_vars

-----------------------------------------------------------------------------
(* Function declarations *)

\* C27: in generated code the JMP that opens a function declaration goes
\* to the function's end label, and the STORE that closes it binds the
\* function's name to its start label; control comes into a function body
\* from outside only by a CALL or by the RETURN of a call made in the body,
\* so the declaration runs none of the body; this holds for a declaration
\* nested in another function's body as well.
C27_DeclarationSkipsTheBody ==
    [][Lowered /\ Running /\ exc' = NoExc =>
          \A s \in StartSites :
              /\ ip + 1 = s - 1 => ip' + 1 = EndOf(s)
              /\ ip + 1 = EndOf(s) + 2 =>
                     /\ Cur.op = "STORE"
                     /\ globals'[Cur.name] = PyStr(instructions[s].name)
              /\ (ip + 1) \notin BodyOf(s) /\ (ip' + 1) \in BodyOf(s) =>
                     Cur.op \in {"CALL", "RETURN"}]_vars

\* The declaration nested in f's body has been executed in a call of f:
\* g is bound to the nested start label and the nested body has printed
\* nothing.
C27_Witness ==
    /\ mode = "text" /\ input = TextNested /\ pc = "vm"
    /\ Len(call_stack) = 1
    /\ "g" \in DOMAIN globals /\ globals["g"] = PyStr("L5")
    /\ out = <<Printed(PyFloat(0))>>

\* The source with the nested declaration has run to its end.
C27_NestedRan ==
    /\ mode = "text" /\ input = TextNested /\ pc = "exited"
    /\ out = <<Printed(PyFloat(0)), Printed(PyFloat(1)), Printed(PyFloat(2)),
               Printed(PyFloat(3))>>

-----------------------------------------------------------------------------
(* Rejected programs *)

\* The statements run() hands to the analyzer.
Analyzed == IF mode = "text" THEN parsed ELSE CurrentSource

\* C28: when the analyzer rejects the program that run() hands to it, one
\* semantic diagnostic is printed, no exception is raised and run()
\* returns; a program with a non-boolean literal as an if condition is one
\* of those rejected.
C28_RejectionPrintsAndReturns ==
    [][/\ mode \in {"file", "prompt", "text"}
       /\ pc = "run" /\ exc = NoExc
       /\ Analyzed # <<>> /\ analyze(Analyzed) # ""
       => /\ exc' = NoExc
          /\ pc' = AfterRun
          /\ Len(out') = Len(out) + 1
          /\ out'[Len(out')].ch = "semantic"]_vars

-----------------------------------------------------------------------------
(* The value stack across a call *)

\* The number of arguments of the CALL that pushed the frame.
ArgumentsOf(frame) == instructions[frame.ip].k

\* C29: in a call of a declared function with k arguments the PARAM
\* instructions take the k arguments off the stack and nothing else: the
\* PARAM of a parameter after the k-th leaves the stack as it is, so no
\* entry that lay below the arguments is popped.
C29_ParamsPopArgumentsOnly ==
    [][/\ Lowered /\ Running /\ Cur.op = "PARAM"
       /\ call_stack # <<>> /\ EnteredBody(Top(call_stack))
       => \A s \in StartSites :
              LET j == ip - s
              IN  j \in 1..instructions[s + 1].k /\ j > ArgumentsOf(Top(call_stack))
                      => stack' = stack]_vars

-----------------------------------------------------------------------------
(* What CALL takes for a function *)

\* C30: in generated code a CALL pushes a frame and leaves the instruction
\* sequence only for the start label of a function declaration: the value
\* the called name is bound to is the label of a LABEL that a FUNC follows,
\* and the target is that LABEL.
C30_CallEntersDeclaredFunctionsOnly ==
    [][/\ Lowered /\ Running /\ Cur.op = "CALL"
       /\ (call_stack' # call_stack \/ ip' # ip + 1)
       => /\ IsFunctionHandle(globals[Cur.name])
          /\ (ip' + 1) \in StartSites]_vars

====
